---- MODULE Spec2Model ----
(***************************************************************************)
(* Forge OS graph registries (src/vectordb): decision registry, thread     *)
(* registry, conversation registry, display-ID allocation, conflict        *)
(* registration and lineage edges, modelled as state machines over the     *)
(* MongoDB collections they read and write.                                *)
(*                                                                         *)
(* Identifiers.  The UUIDv5/UUIDv8 derivations of uuidv8.py hash their     *)
(* inputs (SHA-1 / SHA-256).  A derived identifier is modelled as the      *)
(* tuple of the inputs it is hashed from, i.e. the hash is taken to be     *)
(* collision free; everything else the derivation does (what goes INTO the *)
(* hash, the clock fallback of _extract_timestamp, the sorting of          *)
(* composite_pair) is modelled as the code computes it.                    *)
(***************************************************************************)
EXTENDS Integers, Sequences, FiniteSets, TLC

VARIABLES
    now,                  \* the wall clock, epoch milliseconds
    ncalls,               \* number of API calls made so far
    result,               \* what the last API call returned
    memory_events,        \* COLLECTION_EVENTS
    decision_registry,    \* COLLECTION_DECISION_REGISTRY, keyed by the unique "uuid"
    display_id_counters,  \* COLLECTION_DISPLAY_ID_COUNTERS, documents in natural order
    display_id_index,     \* COLLECTION_DISPLAY_ID_INDEX, keyed by display_id
    thread_registry,      \* COLLECTION_THREAD_REGISTRY, keyed by the unique "uuid"
    conversation_registry,\* COLLECTION_CONVERSATION_REGISTRY, keyed by the unique "source_id"
    registrants,          \* concurrent register_conversation calls: position and locals
    allocators,           \* concurrent allocate_display_id calls: position and locals
    lineage_edges,        \* COLLECTION_LINEAGE_EDGES of two stores fed the same calls
    replay,               \* the add_edge calls made, and the order the second store got them in
    entanglement_scans,   \* COLLECTION_ENTANGLEMENT_SCANS, oldest first
    compression_registry, \* COLLECTION_COMPRESSION_REGISTRY, keyed by compression_tag
    blobs,                \* the blob directory: path -> bytes written so far
    writers               \* concurrent blob store calls: position and locals

vars == <<now, ncalls, result, memory_events, decision_registry,
          display_id_counters, display_id_index, thread_registry,
          conversation_registry, registrants, allocators, lineage_edges, replay,
          entanglement_scans, compression_registry, blobs, writers>>

(***************************************************************************)
(* Bounds of the model                                                     *)
(***************************************************************************)
MaxCalls == 3
MaxNow == 1

(***************************************************************************)
(* Input domains                                                           *)
(***************************************************************************)
Texts == {"use D001 cache", "drop D001 cache"}
Projects == {"Forge OS", "The Nexus"}
\* A conversation id is a UUID: its string form, its version nibble and, for a
\* UUIDv8, the 48-bit timestamp of its first six bytes.  "c8" is an id minted by
\* the conversation registry; "c0" is uuid.UUID(int=0), which api_server.py and
\* mcp_server.py pass when no registered conversation uuid is at hand.
ConvV8 == [id |-> "c8", version |-> 8, ts |-> 0]
ConvNil == [id |-> "c0", version |-> 0, ts |-> 0]
ConversationIds == {ConvV8, ConvNil}
NoTier == -1
Tiers == {NoTier, 3, 9}          \* epistemic tier in tenths; NoTier is None
InputStatuses == {"active", "deprecated"}
LocalIds == {"D001"}

Range(s) == {s[i] : i \in 1..Len(s)}
None == <<>>

(***************************************************************************)
(* uuidv8.py                                                               *)
(***************************************************************************)
v5(name, namespace) == <<"v5", namespace, name>>

v8(namespace, timestamp_ms) == <<"v8", namespace, timestamp_ms>>

_extract_timestamp(uid, clock) ==
    IF uid.version # 8 THEN clock ELSE uid.ts

TextHash(text) == <<"sha256_16", text>>

\* mutant: the identity ignores the decision text
decision_id_no_text(project_uuid, decision_text, originated_conversation_id, clock) ==
    v8(v5(<<"", originated_conversation_id.id>>, project_uuid),
       _extract_timestamp(originated_conversation_id, clock))

decision_id(project_uuid, decision_text, originated_conversation_id, clock) ==
    LET text_hash == TextHash(decision_text)
        content == <<text_hash, originated_conversation_id.id>>
        derived == v5(content, project_uuid)
        ts_ms == _extract_timestamp(originated_conversation_id, clock)
    IN v8(derived, ts_ms)

\* conversation_registry.py
_derive_project_uuid(project_name) == v5(<<"project:", project_name>>, "BASE_UUID")

(***************************************************************************)
(* MongoDB primitives on a collection keyed by a unique field              *)
(***************************************************************************)
\* update_one({key: k}, {"$set": fields}): no match, no change
UpdateSet(collection, k, fields) ==
    IF k \in DOMAIN collection
    THEN [collection EXCEPT ![k] = fields @@ @]
    ELSE collection

InsertOne(collection, k, doc) == (k :> doc) @@ collection

\* $addToSet on a list field
AddToSet(list, x) == IF x \in Range(list) THEN list ELSE Append(list, x)

(***************************************************************************)
(* events.py                                                               *)
(***************************************************************************)
emit_event(events, event_type, subject, clock) ==
    events \cup {[event_type |-> event_type, timestamp |-> clock, details |-> subject]}

(***************************************************************************)
(* display_ids.py                                                          *)
(***************************************************************************)
DEFAULT_PREFIX_MAP == [p \in Projects |->
    IF p = "Forge OS" THEN "FORGE" ELSE "NEXUS"]

ENTITY_TYPE_MAP == [t \in {"decision", "thread"} |->
    IF t = "decision" THEN "D" ELSE "T"]

MatchingCounters(counters, prefix, type_code) ==
    {i \in 1..Len(counters) :
        counters[i].project_prefix = prefix /\ counters[i].entity_type = type_code}

FirstOf(S) == CHOOSE i \in S : \A j \in S : i <= j

get_project_prefix(counters, project_name) ==
    LET hits == {i \in 1..Len(counters) : counters[i].project_name = project_name}
    IN IF hits # {} THEN counters[FirstOf(hits)].project_prefix
       ELSE DEFAULT_PREFIX_MAP[project_name]

\* find_one_and_update(..., {"$inc": next_sequence}, upsert=True) run atomically:
\* the counters collection after the call
allocate_counters(counters, project_name, entity_type) ==
    LET prefix == get_project_prefix(counters, project_name)
        type_code == ENTITY_TYPE_MAP[entity_type]
        hits == MatchingCounters(counters, prefix, type_code)
    IN IF hits # {}
       THEN [counters EXCEPT ![FirstOf(hits)].next_sequence = @ + 1]
       ELSE Append(counters, [project_name |-> project_name,
                              project_prefix |-> prefix,
                              entity_type |-> type_code,
                              next_sequence |-> 1])

\* the display id the call returns: "{prefix}-{type_code}-{sequence:04d}"
allocate_display_id(counters, project_name, entity_type) ==
    LET prefix == get_project_prefix(counters, project_name)
        type_code == ENTITY_TYPE_MAP[entity_type]
        after == allocate_counters(counters, project_name, entity_type)
        hit == FirstOf(MatchingCounters(after, prefix, type_code))
    IN <<prefix, type_code, after[hit].next_sequence>>

register_display_id(index, display_id, entity_uuid, collection_name, project_name, clock) ==
    LET created == IF display_id \in DOMAIN index
                   THEN index[display_id].created_at ELSE clock
    IN (display_id :> [display_id |-> display_id,
                       entity_uuid |-> entity_uuid,
                       collection |-> collection_name,
                       project |-> project_name,
                       updated_at |-> clock,
                       created_at |-> created]) @@ index

(***************************************************************************)
(* conflicts.py                                                            *)
(***************************************************************************)
\* _ENTITY_PATTERN / _PROJECT_KEYWORDS applied to the modelled texts
_extract_entities(text) ==
    IF text \in {"use D001 cache", "drop D001 cache"} THEN {"D001"} ELSE {}

Abs(x) == IF x < 0 THEN -x ELSE x

\* Signal 1.  `similar` is the set of documents the vector index scores at or
\* above DECISION_CONFLICT_SIMILARITY_THRESHOLD for the text (the embedding
\* geometry is the environment's); the $vectorSearch filter and the loop's
\* tests are the code's.
_detect_by_similarity(collection, similar, decision_text, project, exclude_uuid) ==
    {u \in DOMAIN collection \cap similar :
        /\ collection[u].project = project
        /\ collection[u].status = "active"
        /\ u # exclude_uuid
        /\ collection[u].text_hash # TextHash(decision_text)}

\* Signal 2
_detect_by_entities(collection, decision_text, decision_tier, project, exclude_uuid, already_flagged) ==
    {u \in DOMAIN collection :
        /\ collection[u].project = project
        /\ collection[u].status = "active"
        /\ u # exclude_uuid
        /\ u \notin already_flagged
        /\ _extract_entities(decision_text) \cap _extract_entities(collection[u].text) # {}
        /\ collection[u].epistemic_tier # NoTier
        /\ decision_tier # NoTier
        /\ ~(Abs(collection[u].epistemic_tier - decision_tier) < 2)}

\* conflicts_with only ever changes through $addToSet on an initially empty
\* array, so it never holds a repeat; it is kept as the set of its elements.
\* The first update_one of register_conflict
register_conflict_first(collection, uuid_a, uuid_b) ==
    IF uuid_a \in DOMAIN collection
    THEN [collection EXCEPT ![uuid_a].conflicts_with = @ \cup {uuid_b}]
    ELSE collection

\* both update_one calls of register_conflict
register_conflict(collection, uuid_a, uuid_b) ==
    LET first == register_conflict_first(collection, uuid_a, uuid_b)
    IN IF uuid_b \in DOMAIN first
       THEN [first EXCEPT ![uuid_b].conflicts_with = @ \cup {uuid_a}]
       ELSE first

RECURSIVE RegisterAll(_, _, _)
\* the loop `for conflict in conflicts: register_conflict(...)` over `todo`
RegisterAll(collection, decision_uuid, todo) ==
    IF todo = {} THEN collection
    ELSE LET c == CHOOSE x \in todo : TRUE
         IN RegisterAll(register_conflict(collection, decision_uuid, c),
                        decision_uuid, todo \ {c})

(***************************************************************************)
(* decision_registry.py                                                    *)
(***************************************************************************)
Embedding(text) == <<"embedding", text>>

\* mutant: validation stores a fresh embedding
_validate_decision_re_embed(collection, decision_uuid, clock) ==
    UpdateSet(collection, decision_uuid,
              [last_validated |-> clock,
               hops_since_validated |-> 0,
               updated_at |-> clock,
               embedding |-> <<"embedding", "again", clock>>])

_validate_decision(collection, decision_uuid, clock) ==
    UpdateSet(collection, decision_uuid,
              [last_validated |-> clock,
               hops_since_validated |-> 0,
               updated_at |-> clock])

_update_decision(collection, decision_uuid, local_id, text, text_hash, epistemic_tier, status, clock) ==
    LET base == [local_id |-> local_id,
                 text |-> text,
                 text_hash |-> text_hash,
                 embedding |-> Embedding(text),
                 status |-> status,
                 hops_since_validated |-> 0,
                 last_validated |-> clock,
                 updated_at |-> clock]
        update_fields == IF epistemic_tier # NoTier
                         THEN [epistemic_tier |-> epistemic_tier] @@ base
                         ELSE base
    IN UpdateSet(collection, decision_uuid, update_fields)

\* the document _insert_decision builds
DecisionDoc(decision_uuid, local_id, display_id, text, text_hash, project, project_uuid, originated_conversation_id, epistemic_tier, status, clock) ==
    [uuid |-> decision_uuid,
     local_id |-> local_id,
     global_display_id |-> display_id,
     text |-> text,
     text_hash |-> text_hash,
     embedding |-> Embedding(text),
     project |-> project,
     project_uuid |-> project_uuid,
     originated_conversation |-> originated_conversation_id.id,
     epistemic_tier |-> epistemic_tier,
     status |-> status,
     dependents |-> <<>>,
     dependencies |-> <<>>,
     conflicts_with |-> {},
     superseded_by |-> None,
     rationale |-> "",
     hops_since_validated |-> 0,
     last_validated |-> clock,
     created_at |-> clock,
     updated_at |-> clock]

\* What the calls of the decision registry leave alone
DecisionFrame ==
    UNCHANGED <<thread_registry, conversation_registry, registrants, allocators,
                lineage_edges, replay,
                entanglement_scans, compression_registry, blobs, writers>>

\* What a call returns, with the call's inputs and the number of embed_texts
\* calls it made.
Result(op, action, uuid, embeds, args) ==
    [op |-> op, action |-> action, uuid |-> uuid, embeds |-> embeds, args |-> args]

\* New UUID: embed, allocate a display id, insert, register the display id,
\* run conflict detection (best-effort), emit the event.  `similar` is the
\* vector index's answer.  When a store write may fail (`may_fail`), `done`
\* are the conflicts register_conflict completed for and `half` the one, if
\* any, whose second update_one raised; the except clause swallows the
\* exception and the loop ends there.
_insert_decision(decision_uuid, local_id, text, text_hash, project, project_uuid, originated_conversation_id, epistemic_tier, status, args, similar, may_fail) ==
    LET display_id == allocate_display_id(display_id_counters, project, "decision")
        doc == DecisionDoc(decision_uuid, local_id, display_id, text, text_hash,
                           project, project_uuid, originated_conversation_id,
                           epistemic_tier, status, now)
        inserted == InsertOne(decision_registry, decision_uuid, doc)
        signal1 == _detect_by_similarity(inserted, similar, text, project, decision_uuid)
        signal2 == _detect_by_entities(inserted, text, epistemic_tier, project,
                                       decision_uuid, signal1)
        conflicts == signal1 \cup signal2
    IN \E done \in (IF may_fail THEN SUBSET conflicts ELSE {conflicts}) :
       \E half \in {h \in SUBSET (conflicts \ done) : Cardinality(h) <= 1} :
           \* signal-1 conflicts are registered before signal-2 conflicts
           /\ (done \cup half) \cap signal2 # {} => signal1 \subseteq done
           /\ display_id_counters' =
                  allocate_counters(display_id_counters, project, "decision")
           /\ display_id_index' =
                  register_display_id(display_id_index, display_id, decision_uuid,
                                      "decision_registry", project, now)
           /\ decision_registry' =
                  LET registered == RegisterAll(inserted, decision_uuid, done)
                  IN IF half = {} THEN registered
                     ELSE register_conflict_first(registered, decision_uuid,
                                                  CHOOSE c \in half : TRUE)
           /\ memory_events' = emit_event(memory_events, "graph.decision.inserted",
                                          decision_uuid, now)
           /\ result' = Result("upsert_decision", "inserted", decision_uuid, 2, args)

\* `similar` and `may_fail` are the environment's: what the vector index
\* matches and whether a store write of the conflict registration may fail.
upsert_decision(local_id, text, project, project_uuid, originated_conversation_id, epistemic_tier, status, similar, may_fail) ==
    LET decision_uuid == decision_id(project_uuid, text, originated_conversation_id, now)
        text_hash == TextHash(text)
        args == <<local_id, text, project, originated_conversation_id.id,
                  epistemic_tier, status>>
    IN /\ ncalls < MaxCalls
       /\ ncalls' = ncalls + 1
       /\ UNCHANGED now
       /\ DecisionFrame
       /\ IF decision_uuid \in DOMAIN decision_registry
             /\ decision_registry[decision_uuid].text_hash = text_hash
          THEN /\ similar = {} /\ ~may_fail
               /\ decision_registry' = _validate_decision(decision_registry, decision_uuid, now)
               /\ memory_events' = emit_event(memory_events, "graph.decision.validated",
                                              decision_uuid, now)
               /\ result' = Result("upsert_decision", "validated", decision_uuid, 0, args)
               /\ UNCHANGED <<display_id_counters, display_id_index>>
          ELSE IF decision_uuid \in DOMAIN decision_registry
          THEN /\ similar = {} /\ ~may_fail
               /\ decision_registry' = _update_decision(decision_registry, decision_uuid,
                                            local_id, text, text_hash, epistemic_tier,
                                            status, now)
               /\ memory_events' = emit_event(memory_events, "graph.decision.updated",
                                              decision_uuid, now)
               /\ result' = Result("upsert_decision", "updated", decision_uuid, 1, args)
               /\ UNCHANGED <<display_id_counters, display_id_index>>
          ELSE _insert_decision(decision_uuid, local_id, text, text_hash, project,
                                project_uuid, originated_conversation_id,
                                epistemic_tier, status, args, similar, may_fail)

supersede_decision(decision_uuid, superseded_by_uuid) ==
    /\ ncalls < MaxCalls
    /\ ncalls' = ncalls + 1
    /\ decision_registry' = UpdateSet(decision_registry, decision_uuid,
                                [status |-> "superseded",
                                 superseded_by |-> superseded_by_uuid,
                                 updated_at |-> now])
    /\ memory_events' = emit_event(memory_events, "graph.decision.superseded",
                                   decision_uuid, now)
    /\ result' = Result("supersede_decision", "superseded", decision_uuid, 0,
                        <<decision_uuid, superseded_by_uuid>>)
    /\ UNCHANGED <<now, display_id_counters, display_id_index>>
    /\ DecisionFrame

\* mutant: the status filter is dropped
hops_after_any_status(collection, project, exclude_uuids) ==
    [u \in DOMAIN collection |->
        IF /\ collection[u].project = project
           /\ (exclude_uuids # {} => u \notin exclude_uuids)
        THEN [collection[u] EXCEPT !.hops_since_validated = @ + 1]
        ELSE collection[u]]

\* update_many(query, {"$inc": {"hops_since_validated": 1}})
hops_after(collection, project, exclude_uuids) ==
    [u \in DOMAIN collection |->
        IF /\ collection[u].project = project
           /\ collection[u].status = "active"
           /\ (exclude_uuids # {} => u \notin exclude_uuids)
        THEN [collection[u] EXCEPT !.hops_since_validated = @ + 1]
        ELSE collection[u]]

increment_decision_hops(project, exclude_uuids) ==
    /\ ncalls < MaxCalls
    /\ ncalls' = ncalls + 1
    /\ decision_registry' = hops_after(decision_registry, project, exclude_uuids)
    /\ result' = Result("increment_decision_hops", "incremented", None, 0,
                        <<project, exclude_uuids>>)
    /\ UNCHANGED <<now, memory_events, display_id_counters, display_id_index>>
    /\ DecisionFrame

\* A direct call of register_conflict.  outcome "ok": both writes land;
\* "second_write_failed": the store raises on the second update_one, after the
\* first has landed.
call_register_conflict(uuid_a, uuid_b, outcome) ==
    /\ ncalls < MaxCalls
    /\ ncalls' = ncalls + 1
    /\ decision_registry' =
           IF outcome = "ok"
           THEN register_conflict(decision_registry, uuid_a, uuid_b)
           ELSE register_conflict_first(decision_registry, uuid_a, uuid_b)
    /\ result' = Result("register_conflict", outcome, None, 0, <<uuid_a, uuid_b>>)
    /\ UNCHANGED <<now, memory_events, display_id_counters, display_id_index>>
    /\ DecisionFrame

Tick ==
    /\ now < MaxNow
    /\ now' = now + 1
    /\ UNCHANGED <<ncalls, result, memory_events, decision_registry,
                   display_id_counters, display_id_index>>
    /\ DecisionFrame

NoResult == Result("none", "none", None, 0, <<>>)

\* every collection empty, no call made
Init ==
    /\ now = 0
    /\ ncalls = 0
    /\ result = NoResult
    /\ memory_events = {}
    /\ decision_registry = <<>>
    /\ display_id_counters = <<>>
    /\ display_id_index = <<>>
    /\ thread_registry = <<>>
    /\ conversation_registry = <<>>
    /\ registrants = <<>>
    /\ allocators = <<>>
    /\ lineage_edges = <<>>
    /\ replay = <<>>
    /\ entanglement_scans = <<>>
    /\ compression_registry = <<>>
    /\ blobs = <<>>
    /\ writers = <<>>

\* The vector index's possible answers for a project's decisions
ActiveIn(project) ==
    {u \in DOMAIN decision_registry :
        decision_registry[u].project = project /\ decision_registry[u].status = "active"}

\* upsert_decision, supersede_decision and register_conflict on one project
NextDecision ==
    \/ Tick
    \/ \E local_id \in LocalIds, text \in Texts, conv \in ConversationIds,
          status \in InputStatuses, similar \in SUBSET ActiveIn("Forge OS") :
          upsert_decision(local_id, text, "Forge OS", _derive_project_uuid("Forge OS"),
                          conv, NoTier, status, similar, FALSE)
    \/ \E u \in DOMAIN decision_registry, by \in DOMAIN decision_registry :
          supersede_decision(u, by)
    \/ \E a \in DOMAIN decision_registry, b \in DOMAIN decision_registry :
          call_register_conflict(a, b, "ok")

SpecDecision == Init /\ [][NextDecision]_vars

\* upsert_decision and increment_decision_hops over two projects
NextHops ==
    \/ \E local_id \in LocalIds, text \in Texts, project \in Projects,
          status \in InputStatuses :
          upsert_decision(local_id, text, project, _derive_project_uuid(project),
                          ConvV8, NoTier, status, {}, FALSE)
    \/ \E project \in Projects, exclude \in SUBSET DOMAIN decision_registry :
          increment_decision_hops(project, exclude)

SpecHops == Init /\ [][NextHops]_vars

\* upsert_decision with conflict detection, and register_conflict, where a
\* store write of a conflict registration may fail
NextConflict ==
    \/ \E local_id \in LocalIds, text \in Texts, conv \in ConversationIds,
          tier \in Tiers, similar \in SUBSET ActiveIn("Forge OS"),
          may_fail \in BOOLEAN :
          upsert_decision(local_id, text, "Forge OS", _derive_project_uuid("Forge OS"),
                          conv, tier, "active", similar, may_fail)
    \/ \E a \in DOMAIN decision_registry, b \in DOMAIN decision_registry,
          outcome \in {"ok", "second_write_failed"} :
          call_register_conflict(a, b, outcome)

SpecConflict == Init /\ [][NextConflict]_vars

(***************************************************************************)
(* Properties of the decision registry                                     *)
(***************************************************************************)
\* a step that is a call of `op`
Called(op) == ncalls' = ncalls + 1 /\ result'.op = op

\* the inputs of the upsert_decision call a result belongs to
ArgText(r) == r.args[2]
ArgProject(r) == r.args[3]
ArgConversation(r) == r.args[4]

\* C1: a second upsert_decision for an already stored decision (same project,
\* same originating conversation) whose text has changed returns
\* action=updated and performs exactly one re-embedding.
C1_ChangedTextIsUpdated ==
    [][(/\ Called("upsert_decision")
        /\ \E u \in DOMAIN decision_registry :
              /\ decision_registry[u].project = ArgProject(result')
              /\ decision_registry[u].originated_conversation = ArgConversation(result')
              /\ decision_registry[u].text # ArgText(result')
        /\ \A u \in DOMAIN decision_registry :
              (/\ decision_registry[u].project = ArgProject(result')
               /\ decision_registry[u].originated_conversation = ArgConversation(result'))
              => decision_registry[u].text # ArgText(result'))
       => (result'.action = "updated" /\ result'.embeds = 1)]_vars

\* C2: calling upsert_decision twice with identical inputs returns
\* action=inserted and then action=validated with the same uuid; the second
\* call makes no embedding call, creates no new record and leaves
\* hops_since_validated at 0.
C2_RepeatIsValidated ==
    [][(/\ result.op = "upsert_decision"
        /\ result.action = "inserted"
        /\ Called("upsert_decision")
        /\ result'.args = result.args)
       => (/\ result'.action = "validated"
           /\ result'.uuid = result.uuid
           /\ result'.embeds = 0
           /\ DOMAIN decision_registry' = DOMAIN decision_registry
           /\ decision_registry'[result.uuid].hops_since_validated = 0)]_vars

\* C5: conflicts_with is symmetric: in every state reached by upsert_decision
\* and register_conflict calls in which a store write may fail part-way,
\* decision b is in a.conflicts_with if and only if a is in b.conflicts_with.
C5_ConflictsSymmetric ==
    \A a \in DOMAIN decision_registry, b \in DOMAIN decision_registry :
        b \in decision_registry[a].conflicts_with
            <=> a \in decision_registry[b].conflicts_with

\* C8: increment_decision_hops(project, exclude=D) raises hops_since_validated
\* by exactly 1 for every active decision of that project not in D, and leaves
\* unchanged every decision in D, every non-active decision and every decision
\* of another project.
C8_HopsRaisedOutsideD ==
    [][Called("increment_decision_hops") =>
        LET project == result'.args[1]
            D == result'.args[2]
        IN /\ DOMAIN decision_registry' = DOMAIN decision_registry
           /\ \A u \in DOMAIN decision_registry :
                 IF /\ decision_registry[u].project = project
                    /\ decision_registry[u].status = "active"
                    /\ u \notin D
                 THEN decision_registry'[u] =
                        [decision_registry[u] EXCEPT !.hops_since_validated = @ + 1]
                 ELSE decision_registry'[u] = decision_registry[u]]_vars

\* C8 witness: a call with a non-empty D of stored decisions has raised the
\* hops of an active decision outside D and left a decision in D at 0
C8_Witness ==
    /\ result.op = "increment_decision_hops"
    /\ \E u \in DOMAIN decision_registry, v \in DOMAIN decision_registry :
          /\ u \in result.args[2]
          /\ decision_registry[u].project = result.args[1]
          /\ decision_registry[u].status = "active"
          /\ decision_registry[u].hops_since_validated = 0
          /\ v \notin result.args[2]
          /\ decision_registry[v].project = result.args[1]
          /\ decision_registry[v].status = "active"
          /\ decision_registry[v].hops_since_validated = 1

\* C10: a decision whose status is superseded or deprecated never later has
\* status active.
C10_RetiredNeverActive ==
    [][\A u \in DOMAIN decision_registry :
          decision_registry[u].status \in {"superseded", "deprecated"}
          => /\ u \in DOMAIN decision_registry'
             /\ decision_registry'[u].status # "active"]_vars

\* C10 witness: a superseded decision has been upserted again with
\* status="active" and is still superseded
C10_Witness ==
    /\ result.op = "upsert_decision"
    /\ result.action = "validated"
    /\ result.args[6] = "active"
    /\ decision_registry[result.uuid].status = "superseded"

(***************************************************************************)
(* thread_registry.py                                                      *)
(***************************************************************************)
Titles == {"cache eviction", "index rebuild"}
ThreadStatuses == {"open", "blocked", "resolved"}
Resolutions == {"", "shipped"}

thread_id(project_uuid, thread_title, first_seen_conversation_id, clock) ==
    LET content == <<thread_title, first_seen_conversation_id.id>>
        derived == v5(content, project_uuid)
        ts_ms == _extract_timestamp(first_seen_conversation_id, clock)
    IN v8(derived, ts_ms)

ThreadFrame ==
    UNCHANGED <<decision_registry, conversation_registry, registrants, allocators,
                lineage_edges, replay,
                entanglement_scans, compression_registry, blobs, writers>>

\* the document upsert_thread builds for a new thread
ThreadDoc(thread_uuid, local_id, display_id, title, status, project, project_uuid, first_seen_conversation_id, priority, resolution, epistemic_tier, clock) ==
    [uuid |-> thread_uuid,
     local_id |-> local_id,
     global_display_id |-> display_id,
     title |-> title,
     status |-> status,
     project |-> project,
     project_uuid |-> project_uuid,
     first_seen_conversation |-> first_seen_conversation_id.id,
     last_updated_conversation |-> first_seen_conversation_id.id,
     priority |-> priority,
     blocked_by |-> <<>>,
     resolution |-> resolution,
     epistemic_tier |-> epistemic_tier,
     embedding |-> Embedding(title),
     hops_since_validated |-> 0,
     last_validated |-> clock,
     created_at |-> clock,
     updated_at |-> clock]

\* the $set of upsert_thread for an existing thread
thread_update_fields(existing, local_id, title, status, priority, first_seen_conversation_id, resolution, epistemic_tier, clock) ==
    LET base == [local_id |-> local_id,
                 status |-> status,
                 priority |-> priority,
                 blocked_by |-> <<>>,
                 last_updated_conversation |-> first_seen_conversation_id.id,
                 hops_since_validated |-> 0,
                 last_validated |-> clock,
                 updated_at |-> clock]
        with_resolution == IF resolution # ""
                           THEN [resolution |-> resolution] @@ base ELSE base
        with_tier == IF epistemic_tier # NoTier
                     THEN [epistemic_tier |-> epistemic_tier] @@ with_resolution
                     ELSE with_resolution
    IN IF existing.title # title
       THEN [embedding |-> Embedding(title), title |-> title] @@ with_tier
       ELSE with_tier

upsert_thread(local_id, title, project, project_uuid, first_seen_conversation_id, status, priority, resolution, epistemic_tier) ==
    LET thread_uuid == thread_id(project_uuid, title, first_seen_conversation_id, now)
        args == <<local_id, title, project, first_seen_conversation_id.id, status,
                  priority, resolution, epistemic_tier>>
    IN /\ ncalls < MaxCalls
       /\ ncalls' = ncalls + 1
       /\ IF thread_uuid \notin DOMAIN thread_registry
          THEN LET display_id == allocate_display_id(display_id_counters, project, "thread")
               IN /\ display_id_counters' =
                         allocate_counters(display_id_counters, project, "thread")
                  /\ thread_registry' = InsertOne(thread_registry, thread_uuid,
                         ThreadDoc(thread_uuid, local_id, display_id, title, status,
                                   project, project_uuid, first_seen_conversation_id,
                                   priority, resolution, epistemic_tier, now))
                  /\ display_id_index' =
                         register_display_id(display_id_index, display_id, thread_uuid,
                                             "thread_registry", project, now)
                  /\ result' = Result("upsert_thread", "inserted", thread_uuid, 1, args)
          ELSE /\ thread_registry' = UpdateSet(thread_registry, thread_uuid,
                      thread_update_fields(thread_registry[thread_uuid], local_id, title,
                                           status, priority, first_seen_conversation_id,
                                           resolution, epistemic_tier, now))
               /\ result' = Result("upsert_thread", "updated", thread_uuid, 0, args)
               /\ UNCHANGED <<display_id_counters, display_id_index>>
       /\ memory_events' = emit_event(memory_events, "graph.thread.upserted",
                                      thread_uuid, now)
       /\ UNCHANGED now
       /\ ThreadFrame

resolve_thread(thread_uuid, resolution) ==
    /\ ncalls < MaxCalls
    /\ ncalls' = ncalls + 1
    /\ thread_registry' = UpdateSet(thread_registry, thread_uuid,
                              [status |-> "resolved",
                               resolution |-> resolution,
                               updated_at |-> now])
    /\ memory_events' = emit_event(memory_events, "graph.thread.resolved",
                                   thread_uuid, now)
    /\ result' = Result("resolve_thread", "resolved", thread_uuid, 0,
                        <<thread_uuid, resolution>>)
    /\ UNCHANGED <<now, display_id_counters, display_id_index>>
    /\ ThreadFrame

NextThread ==
    \/ Tick
    \/ \E title \in Titles, conv \in ConversationIds, status \in ThreadStatuses,
          resolution \in Resolutions :
          upsert_thread("T001", title, "Forge OS", _derive_project_uuid("Forge OS"),
                        conv, status, "medium", resolution, NoTier)
    \/ \E u \in DOMAIN thread_registry, resolution \in Resolutions \ {""} :
          resolve_thread(u, resolution)

SpecThread == Init /\ [][NextThread]_vars

\* C9: thread status follows open <-> blocked -> resolved only: a thread whose
\* status is resolved never later has status open or blocked.
C9_ResolvedStaysResolved ==
    [][\A u \in DOMAIN thread_registry :
          thread_registry[u].status = "resolved"
          => /\ u \in DOMAIN thread_registry'
             /\ thread_registry'[u].status \notin {"open", "blocked"}]_vars

(***************************************************************************)
(* conversation_registry.py: concurrent register_conversation calls        *)
(***************************************************************************)
Workers == {"w1", "w2"}
SourceIds == {"claude-1", "claude-2"}
NoCreatedAt == -1
CreatedAts == {NoCreatedAt, 7}      \* created_at: None, or epoch milliseconds

v8_from_string(name, namespace, timestamp_ms) == v8(v5(name, namespace), timestamp_ms)

\* the millisecond half of _parse_timestamp
_parse_timestamp(created_at, clock) ==
    IF created_at = NoCreatedAt THEN clock ELSE created_at

_derive_conversation_v8(source_id, project_uuid, created_at_ms) ==
    v8_from_string(source_id, project_uuid, created_at_ms)

IdleRegistrant ==
    [pc |-> "idle", source_id |-> "", project_name |-> "", created_at_ms |-> 0,
     conv_uuid |-> None, existing |-> FALSE, action |-> ""]

RegisterFrame ==
    UNCHANGED <<now, ncalls, result, decision_registry, display_id_counters,
                display_id_index, thread_registry, allocators, lineage_edges, replay,
                entanglement_scans, compression_registry, blobs, writers>>

\* db.py: create_index("uuid", unique=True), create_index("source_id", unique=True)
DuplicateKey(collection, source_id, conv_uuid) ==
    \/ source_id \in DOMAIN collection
    \/ \E s \in DOMAIN collection : collection[s].uuid = conv_uuid

\* lines 91-95: derive the ids, then find_one({"source_id": source_id})
register_find_one(w, source_id, project_name, created_at) ==
    LET created_at_ms == _parse_timestamp(created_at, now)
        project_uuid == _derive_project_uuid(project_name)
    IN /\ registrants[w].pc = "idle"
       /\ registrants' = [registrants EXCEPT ![w] =
              [pc |-> "write",
               source_id |-> source_id,
               project_name |-> project_name,
               created_at_ms |-> created_at_ms,
               conv_uuid |-> _derive_conversation_v8(source_id, project_uuid, created_at_ms),
               existing |-> source_id \in DOMAIN conversation_registry,
               action |-> ""]]
       /\ UNCHANGED <<conversation_registry, memory_events>>
       /\ RegisterFrame

\* lines 97-119: update_one when the read found a record, insert_one when not;
\* insert_one raises DuplicateKeyError on a unique index and the call ends
register_write(w) ==
    LET r == registrants[w]
    IN /\ r.pc = "write"
       /\ IF r.existing
          THEN /\ conversation_registry' =
                      UpdateSet(conversation_registry, r.source_id, [updated_at |-> now])
               /\ registrants' = [registrants EXCEPT ![w].pc = "emit",
                                                     ![w].action = "updated"]
          ELSE IF DuplicateKey(conversation_registry, r.source_id, r.conv_uuid)
          THEN /\ registrants' = [registrants EXCEPT ![w].pc = "raised"]
               /\ UNCHANGED conversation_registry
          ELSE /\ conversation_registry' =
                      InsertOne(conversation_registry, r.source_id,
                                [uuid |-> r.conv_uuid,
                                 source_id |-> r.source_id,
                                 project_name |-> r.project_name,
                                 project_uuid |-> _derive_project_uuid(r.project_name),
                                 conversation_name |-> r.source_id,
                                 summary |-> "",
                                 created_at_ms |-> r.created_at_ms,
                                 updated_at |-> now])
               /\ registrants' = [registrants EXCEPT ![w].pc = "emit",
                                                     ![w].action = "inserted"]
       /\ UNCHANGED memory_events
       /\ RegisterFrame

\* lines 121-136: emit the event and return {action, uuid, project_uuid}
register_emit(w) ==
    /\ registrants[w].pc = "emit"
    /\ memory_events' = emit_event(memory_events, "graph.conversation.registered",
                                   <<registrants[w].conv_uuid, registrants[w].action>>, now)
    /\ registrants' = [registrants EXCEPT ![w].pc = "returned"]
    /\ UNCHANGED conversation_registry
    /\ RegisterFrame

InitRegister ==
    /\ now = 0
    /\ ncalls = 0
    /\ result = NoResult
    /\ memory_events = {}
    /\ decision_registry = <<>>
    /\ display_id_counters = <<>>
    /\ display_id_index = <<>>
    /\ thread_registry = <<>>
    /\ conversation_registry = <<>>
    /\ registrants = [w \in Workers |-> IdleRegistrant]
    /\ allocators = <<>>
    /\ lineage_edges = <<>>
    /\ replay = <<>>
    /\ entanglement_scans = <<>>
    /\ compression_registry = <<>>
    /\ blobs = <<>>
    /\ writers = <<>>

NextRegister ==
    \/ \E w \in Workers, source_id \in SourceIds, project_name \in Projects,
          created_at \in CreatedAts :
          register_find_one(w, source_id, project_name, created_at)
    \/ \E w \in Workers : register_write(w)
    \/ \E w \in Workers : register_emit(w)

SpecRegister == InitRegister /\ [][NextRegister]_vars

\* C4: two concurrent register_conversation calls with the same source_id,
\* under any interleaving, both complete: one returns action=inserted, the
\* other action=updated, and exactly one record for that source_id is stored.
C4_OneInsertOneUpdate ==
    \A v \in Workers, w \in Workers :
        (/\ v # w
         /\ registrants[v].pc \in {"returned", "raised"}
         /\ registrants[w].pc \in {"returned", "raised"}
         /\ registrants[v].source_id = registrants[w].source_id)
        => /\ registrants[v].pc = "returned"
           /\ registrants[w].pc = "returned"
           /\ {registrants[v].action, registrants[w].action} = {"inserted", "updated"}
           /\ registrants[v].source_id \in DOMAIN conversation_registry

(***************************************************************************)
(* display_ids.py: concurrent allocate_display_id calls                    *)
(***************************************************************************)
MaxAllocs == 2
EntityTypes == {"decision", "thread"}

\* db.py ensure_forge_indexes creates no index on the counters collection
counters_unique_index == FALSE

IdleAllocator(got) ==
    [pc |-> "idle", project_name |-> "", prefix |-> "", type_code |-> "", got |-> got]

AllocFrame ==
    UNCHANGED <<now, ncalls, result, memory_events, decision_registry,
                display_id_index, thread_registry, conversation_registry,
                registrants, lineage_edges, replay,
                entanglement_scans, compression_registry, blobs, writers>>

\* line 109: get_project_prefix reads the counters collection
alloc_get_project_prefix(w, project_name, entity_type) ==
    /\ allocators[w].pc = "idle"
    /\ Len(allocators[w].got) < MaxAllocs
    /\ allocators' = [allocators EXCEPT ![w] =
           [pc |-> "find_one_and_update",
            project_name |-> project_name,
            prefix |-> get_project_prefix(display_id_counters, project_name),
            type_code |-> ENTITY_TYPE_MAP[entity_type],
            got |-> allocators[w].got]]
    /\ UNCHANGED display_id_counters
    /\ AllocFrame

\* lines 114-133: the query phase of the upsert.  A matching counter document
\* is incremented and returned atomically; with none, the server goes on to
\* insert one.
alloc_find_one_and_update(w) ==
    LET a == allocators[w]
        hits == MatchingCounters(display_id_counters, a.prefix, a.type_code)
    IN /\ a.pc = "find_one_and_update"
       /\ IF hits # {}
          THEN /\ display_id_counters' =
                      [display_id_counters EXCEPT ![FirstOf(hits)].next_sequence = @ + 1]
               /\ allocators' = [allocators EXCEPT ![w] = IdleAllocator(
                      Append(a.got, <<a.prefix, a.type_code,
                                      display_id_counters[FirstOf(hits)].next_sequence + 1>>))]
          ELSE /\ allocators' = [allocators EXCEPT ![w].pc = "upsert_insert"]
               /\ UNCHANGED display_id_counters
       /\ AllocFrame

\* the insert phase of the upsert: $setOnInsert plus $inc on a new document.
\* Only a unique index on the query fields makes the server fall back to an
\* update when another upsert has inserted meanwhile.
alloc_upsert_insert(w) ==
    LET a == allocators[w]
        hits == MatchingCounters(display_id_counters, a.prefix, a.type_code)
    IN /\ a.pc = "upsert_insert"
       /\ IF counters_unique_index /\ hits # {}
          THEN /\ display_id_counters' =
                      [display_id_counters EXCEPT ![FirstOf(hits)].next_sequence = @ + 1]
               /\ allocators' = [allocators EXCEPT ![w] = IdleAllocator(
                      Append(a.got, <<a.prefix, a.type_code,
                                      display_id_counters[FirstOf(hits)].next_sequence + 1>>))]
          ELSE /\ display_id_counters' =
                      Append(display_id_counters,
                             [project_name |-> a.project_name,
                              project_prefix |-> a.prefix,
                              entity_type |-> a.type_code,
                              next_sequence |-> 1])
               /\ allocators' = [allocators EXCEPT ![w] = IdleAllocator(
                      Append(a.got, <<a.prefix, a.type_code, 1>>))]
       /\ AllocFrame

InitAlloc ==
    /\ now = 0
    /\ ncalls = 0
    /\ result = NoResult
    /\ memory_events = {}
    /\ decision_registry = <<>>
    /\ display_id_counters = <<>>
    /\ display_id_index = <<>>
    /\ thread_registry = <<>>
    /\ conversation_registry = <<>>
    /\ registrants = <<>>
    /\ allocators = [w \in Workers |-> IdleAllocator(<<>>)]
    /\ lineage_edges = <<>>
    /\ replay = <<>>
    /\ entanglement_scans = <<>>
    /\ compression_registry = <<>>
    /\ blobs = <<>>
    /\ writers = <<>>

NextAlloc ==
    \/ \E w \in Workers, project_name \in Projects, entity_type \in EntityTypes :
          alloc_get_project_prefix(w, project_name, entity_type)
    \/ \E w \in Workers : alloc_find_one_and_update(w)
    \/ \E w \in Workers : alloc_upsert_insert(w)

SpecAlloc == InitAlloc /\ [][NextAlloc]_vars

\* every display id handed out so far, as (worker, position) slots
Slots == {<<w, i>> : w \in Workers, i \in 1..MaxAllocs}
Handed == {sl \in Slots : sl[2] <= Len(allocators[sl[1]].got)}
IdAt(sl) == allocators[sl[1]].got[sl[2]]

\* C3: for each (prefix, type), under any interleaving of concurrent
\* allocate_display_id calls (the very first ones included), the sequence
\* numbers handed out are pairwise distinct and form the dense range 1..n.
C3_DistinctDense ==
    /\ \A s \in Handed, t \in Handed : s # t => IdAt(s) # IdAt(t)
    /\ \A s \in Handed :
          \A n \in 1..IdAt(s)[3] :
              \E t \in Handed : IdAt(t) = <<IdAt(s)[1], IdAt(s)[2], n>>

(***************************************************************************)
(* lineage.py: add_edge, applied to one store in call order and replayed   *)
(* on a second store in any order                                          *)
(***************************************************************************)
MaxEdgeCalls == 2

\* conversation UUID strings, in the order str() sorts them
ConvStrings == <<"conv-a", "conv-b", "conv-c">>
StrIndex(c) == CHOOSE i \in 1..Len(ConvStrings) : ConvStrings[i] = c

composite_pair(a, b) ==
    LET sorted_pair == IF StrIndex(a) <= StrIndex(b) THEN <<a, b>> ELSE <<b, a>>
    IN v5(sorted_pair, "BASE_UUID")

lineage_id(source_conversation_id, target_conversation_id) ==
    composite_pair(source_conversation_id, target_conversation_id)

EdgeCall(source, target, tag, carried, dropped, t_carried, t_resolved, s_project, t_project) ==
    [source_conversation |-> source, target_conversation |-> target,
     compression_tag |-> tag,
     decisions_carried |-> carried, decisions_dropped |-> dropped,
     threads_carried |-> t_carried, threads_resolved |-> t_resolved,
     source_project |-> s_project, target_project |-> t_project]

\* an argument left out (None) is falsy like "" and []
EdgeCalls ==
    {EdgeCall("conv-a", "conv-b", tag, carried, <<>>, <<>>, <<>>, "", "") :
        tag \in {"", "t1", "t2"}, carried \in {<<"x">>, <<"y">>}}
    \cup {EdgeCall("conv-b", "conv-a", "", <<"x", "x">>, <<>>, <<>>, <<>>, "", ""),
          EdgeCall("conv-a", "conv-b", "", <<>>, <<"z">>, <<"T1">>, <<"T2">>,
                   "Forge OS", "The Nexus"),
          EdgeCall("conv-b", "conv-c", "t1", <<"y">>, <<"x">>, <<>>, <<"T1">>,
                   "The Nexus", "The Nexus")}

ListFields == {"decisions_carried", "decisions_dropped", "threads_carried", "threads_resolved"}
ScalarFields == {"compression_tag", "source_project", "target_project"}

\* mutant: the passed list replaces the stored one
AddToSetEach_replace(list, values) ==
    IF values = <<>> THEN list ELSE values

\* $addToSet with $each
RECURSIVE AddToSetEach(_, _)
AddToSetEach(list, values) ==
    IF values = <<>> THEN list
    ELSE AddToSetEach(AddToSet(list, Head(values)), Tail(values))

\* mutant: an update leaves the list fields as inserted
add_edge_insert_only(collection, call, clock) ==
    LET edge_uuid == lineage_id(call.source_conversation, call.target_conversation)
    IN IF edge_uuid \notin DOMAIN collection
       THEN InsertOne(collection, edge_uuid,
                      [edge_uuid |-> edge_uuid, created_at |-> clock,
                       updated_at |-> clock] @@ call)
       ELSE [collection EXCEPT ![edge_uuid] =
                [f \in DOMAIN @ |->
                    IF f = "updated_at" THEN clock
                    ELSE IF f \in ScalarFields /\ call[f] # "" THEN call[f]
                    ELSE @[f]]]

\* the store after add_edge: insert_one on the first call for an edge id;
\* afterwards $addToSet for the non-empty lists and $set for updated_at and
\* the non-empty scalars
add_edge(collection, call, clock) ==
    LET edge_uuid == lineage_id(call.source_conversation, call.target_conversation)
    IN IF edge_uuid \notin DOMAIN collection
       THEN InsertOne(collection, edge_uuid,
                      [edge_uuid |-> edge_uuid, created_at |-> clock,
                       updated_at |-> clock] @@ call)
       ELSE [collection EXCEPT ![edge_uuid] =
                [f \in DOMAIN @ |->
                    IF f = "updated_at" THEN clock
                    ELSE IF f \in ListFields THEN AddToSetEach(@[f], call[f])
                    ELSE IF f \in ScalarFields /\ call[f] # "" THEN call[f]
                    ELSE @[f]]]

LineageFrame ==
    UNCHANGED <<now, decision_registry, display_id_counters, display_id_index,
                thread_registry, conversation_registry, registrants, allocators,
                entanglement_scans, compression_registry, blobs, writers>>

\* one add_edge call against `store`: the write, the event, the return value
AddEdgeOn(store, call) ==
    LET edge_uuid == lineage_id(call.source_conversation, call.target_conversation)
        action == IF edge_uuid \in DOMAIN lineage_edges[store]
                  THEN "updated" ELSE "inserted"
    IN /\ lineage_edges' = [lineage_edges EXCEPT ![store] = add_edge(@, call, now)]
       /\ memory_events' = emit_event(memory_events, "graph.lineage.edge",
              <<edge_uuid, call.source_conversation, call.target_conversation, action>>, now)
       /\ ncalls' = ncalls + 1
       /\ result' = Result("add_edge", action, edge_uuid, 0, call)
       /\ LineageFrame

\* a sync calls add_edge on the first store
add_edge_call(call) ==
    /\ Len(replay.history) < MaxEdgeCalls
    /\ replay' = [replay EXCEPT !.history = Append(@, call)]
    /\ AddEdgeOn("in_order", call)

\* the same call reaches the second store, in whatever order
add_edge_replay(i) ==
    /\ i \in 1..Len(replay.history)
    /\ i \notin Range(replay.order)
    /\ replay' = [replay EXCEPT !.order = Append(@, i)]
    /\ AddEdgeOn("reordered", replay.history[i])

InitLineage ==
    /\ now = 0
    /\ ncalls = 0
    /\ result = NoResult
    /\ memory_events = {}
    /\ decision_registry = <<>>
    /\ display_id_counters = <<>>
    /\ display_id_index = <<>>
    /\ thread_registry = <<>>
    /\ conversation_registry = <<>>
    /\ registrants = <<>>
    /\ allocators = <<>>
    /\ lineage_edges = [in_order |-> <<>>, reordered |-> <<>>]
    /\ replay = [history |-> <<>>, order |-> <<>>]
    /\ entanglement_scans = <<>>
    /\ compression_registry = <<>>
    /\ blobs = <<>>
    /\ writers = <<>>

NextLineage ==
    \/ Tick
    \/ \E call \in EdgeCalls : add_edge_call(call)
    \/ \E i \in 1..MaxEdgeCalls : add_edge_replay(i)

SpecLineage == InitLineage /\ [][NextLineage]_vars

AllReplayed == Len(replay.order) = Len(replay.history)
CallsOf(e) ==
    {i \in 1..Len(replay.history) :
        lineage_id(replay.history[i].source_conversation,
                   replay.history[i].target_conversation) = e}
SamePair ==
    \A i, j \in 1..Len(replay.history) :
        /\ replay.history[i].source_conversation = replay.history[j].source_conversation
        /\ replay.history[i].target_conversation = replay.history[j].target_conversation
PassedScalars(e, f) == {replay.history[i][f] : i \in CallsOf(e)} \ {""}
SameDirection(e) ==
    \A i, j \in CallsOf(e) :
        replay.history[i].source_conversation = replay.history[j].source_conversation

\* C6 as stated: for a fixed conversation pair, the same add_edge calls in
\* any order leave the same stored edge: equal scalars, set-equal lists.
C6_AllFieldsConverge ==
    (AllReplayed /\ SamePair) =>
        /\ DOMAIN lineage_edges.in_order = DOMAIN lineage_edges.reordered
        /\ \A e \in DOMAIN lineage_edges.in_order :
              /\ \A f \in ListFields :
                    Range(lineage_edges.in_order[e][f]) = Range(lineage_edges.reordered[e][f])
              /\ \A f \in ScalarFields \cup {"source_conversation", "target_conversation"} :
                    lineage_edges.in_order[e][f] = lineage_edges.reordered[e][f]

\* C6 amended: the same add_edge calls in any order leave the same edges with
\* set-equal list fields; a scalar field converges when the calls for the edge
\* passed at most one distinct non-empty value for it, and the stored
\* source/target when all calls for the edge name them in the same direction.
C6_ListsConverge ==
    AllReplayed =>
        /\ DOMAIN lineage_edges.in_order = DOMAIN lineage_edges.reordered
        /\ \A e \in DOMAIN lineage_edges.in_order :
              /\ \A f \in ListFields :
                    Range(lineage_edges.in_order[e][f]) = Range(lineage_edges.reordered[e][f])
              /\ \A f \in ScalarFields :
                    Cardinality(PassedScalars(e, f)) <= 1 =>
                        lineage_edges.in_order[e][f] = lineage_edges.reordered[e][f]
              /\ SameDirection(e) =>
                    \A f \in {"source_conversation", "target_conversation"} :
                        lineage_edges.in_order[e][f] = lineage_edges.reordered[e][f]

\* two calls for one edge with different lists, replayed in the opposite order
C6_Witness ==
    /\ Len(replay.history) = 2
    /\ replay.order = <<2, 1>>
    /\ SamePair
    /\ replay.history[1].decisions_carried = <<"x">>
    /\ replay.history[2].decisions_carried = <<"y">>
    /\ \E e \in DOMAIN lineage_edges.reordered :
          lineage_edges.reordered[e].decisions_carried = <<"y", "x">>

\* C7: each list field of a stored edge is set-equal to the union of the
\* values passed for that field across all add_edge calls for the edge; in
\* particular [x] then [y] leaves decisions_carried set-equal to {x, y}.
C7_ListsAreUnions ==
    /\ DOMAIN lineage_edges.in_order =
          {lineage_id(replay.history[i].source_conversation,
                      replay.history[i].target_conversation) :
              i \in 1..Len(replay.history)}
    /\ \A e \in DOMAIN lineage_edges.in_order :
          \A f \in ListFields :
              Range(lineage_edges.in_order[e][f]) =
                  UNION {Range(replay.history[i][f]) : i \in CallsOf(e)}

\* add_edge(src,tgt,[x]) then add_edge(src,tgt,[y]) have been applied
C7_Witness ==
    /\ Len(replay.history) = 2
    /\ SamePair
    /\ replay.history[1].decisions_carried = <<"x">>
    /\ replay.history[2].decisions_carried = <<"y">>
    /\ \E e \in DOMAIN lineage_edges.in_order :
          Range(lineage_edges.in_order[e].decisions_carried) = {"x", "y"}

(***************************************************************************)
(* decision_registry.py: re-upsert with a changed epistemic tier           *)
(***************************************************************************)
ArgTier(r) == r.args[5]

\* upsert_decision with every epistemic tier, the vector index matching nothing
NextTier ==
    \/ Tick
    \/ \E local_id \in LocalIds, text \in Texts, conv \in ConversationIds,
          tier \in Tiers :
          upsert_decision(local_id, text, "Forge OS", _derive_project_uuid("Forge OS"),
                          conv, tier, "active", {}, FALSE)

SpecTier == Init /\ [][NextTier]_vars

\* the call just returned re-upserted a stored decision with another tier
TierChanged ==
    /\ Called("upsert_decision")
    /\ result'.uuid \in DOMAIN decision_registry
    /\ decision_registry[result'.uuid].epistemic_tier # ArgTier(result')

\* C11 as stated: re-upserting an existing decision with a changed epistemic
\* tier triggers a re-embedding of that decision.
C11_TierChangeReEmbeds ==
    [][TierChanged => result'.embeds >= 1]_vars

\* C11 amended: re-upserting an existing decision (same text, so same uuid)
\* with a changed epistemic tier is a validation: action=validated, no
\* embedding call, and the stored embedding and epistemic tier stay as they were.
C11_TierChangeValidates ==
    [][TierChanged =>
          /\ result'.action = "validated"
          /\ result'.embeds = 0
          /\ decision_registry'[result'.uuid].embedding =
                 decision_registry[result'.uuid].embedding
          /\ decision_registry'[result'.uuid].epistemic_tier =
                 decision_registry[result'.uuid].epistemic_tier]_vars

\* a stored decision has just been re-upserted with a tier it does not have
C11_Witness ==
    /\ result.op = "upsert_decision"
    /\ result.action = "validated"
    /\ result.uuid \in DOMAIN decision_registry
    /\ decision_registry[result.uuid].epistemic_tier # ArgTier(result)
    /\ ArgTier(result) # NoTier

(***************************************************************************)
(* decision_registry.py, thread_registry.py: the handlers when the         *)
(* embedding provider fails (embed_texts raises)                           *)
(***************************************************************************)
\* [0.0] * EMBEDDING_DIMENSIONS
ZeroVector == <<"embedding", "zeros">>

\* upsert_decision while embed_texts raises.  The validate branch embeds
\* nothing.  _update_decision and _insert_decision call embed_texts first and
\* outside any try: the exception leaves the call before anything is written.
upsert_decision_embed_raises(local_id, text, project, project_uuid, originated_conversation_id, epistemic_tier, status) ==
    LET decision_uuid == decision_id(project_uuid, text, originated_conversation_id, now)
        args == <<local_id, text, project, originated_conversation_id.id,
                  epistemic_tier, status>>
    IN IF /\ decision_uuid \in DOMAIN decision_registry
          /\ decision_registry[decision_uuid].text_hash = TextHash(text)
       THEN upsert_decision(local_id, text, project, project_uuid,
                            originated_conversation_id, epistemic_tier, status, {}, FALSE)
       ELSE /\ ncalls < MaxCalls
            /\ ncalls' = ncalls + 1
            /\ result' = Result("upsert_decision", "raised", decision_uuid, 1, args)
            /\ UNCHANGED <<now, memory_events, decision_registry,
                           display_id_counters, display_id_index>>
            /\ DecisionFrame

\* upsert_thread while embed_texts raises: the insert branch catches the
\* exception and stores the zero vector; the update branch embeds only when
\* the title differs, and then keeps the stored embedding.
upsert_thread_embed_raises(local_id, title, project, project_uuid, first_seen_conversation_id, status, priority, resolution, epistemic_tier) ==
    LET thread_uuid == thread_id(project_uuid, title, first_seen_conversation_id, now)
        args == <<local_id, title, project, first_seen_conversation_id.id, status,
                  priority, resolution, epistemic_tier>>
    IN /\ ncalls < MaxCalls
       /\ ncalls' = ncalls + 1
       /\ IF thread_uuid \notin DOMAIN thread_registry
          THEN LET display_id == allocate_display_id(display_id_counters, project, "thread")
                   doc == ThreadDoc(thread_uuid, local_id, display_id, title, status,
                                    project, project_uuid, first_seen_conversation_id,
                                    priority, resolution, epistemic_tier, now)
               IN /\ display_id_counters' =
                         allocate_counters(display_id_counters, project, "thread")
                  /\ thread_registry' = InsertOne(thread_registry, thread_uuid,
                         [doc EXCEPT !.embedding = ZeroVector])
                  /\ display_id_index' =
                         register_display_id(display_id_index, display_id, thread_uuid,
                                             "thread_registry", project, now)
                  /\ result' = Result("upsert_thread", "inserted", thread_uuid, 1, args)
          ELSE LET fields == thread_update_fields(thread_registry[thread_uuid], local_id,
                                 title, status, priority, first_seen_conversation_id,
                                 resolution, epistemic_tier, now)
               IN /\ thread_registry' = UpdateSet(thread_registry, thread_uuid,
                         [f \in DOMAIN fields \ {"embedding"} |-> fields[f]])
                  /\ result' = Result("upsert_thread", "updated", thread_uuid, 0, args)
                  /\ UNCHANGED <<display_id_counters, display_id_index>>
       /\ memory_events' = emit_event(memory_events, "graph.thread.upserted",
                                      thread_uuid, now)
       /\ UNCHANGED now
       /\ ThreadFrame

\* decisions and threads upserted while the provider is up or down
NextEmbedFail ==
    \/ \E text \in Texts :
          upsert_decision("D001", text, "Forge OS", _derive_project_uuid("Forge OS"),
                          ConvV8, NoTier, "active", {}, FALSE)
    \/ \E text \in Texts :
          upsert_decision_embed_raises("D001", text, "Forge OS",
                                       _derive_project_uuid("Forge OS"),
                                       ConvV8, NoTier, "active")
    \/ \E title \in Titles :
          upsert_thread("T001", title, "Forge OS", _derive_project_uuid("Forge OS"),
                        ConvV8, "open", "medium", "", NoTier)
    \/ \E title \in Titles :
          upsert_thread_embed_raises("T001", title, "Forge OS",
                                     _derive_project_uuid("Forge OS"),
                                     ConvV8, "open", "medium", "", NoTier)

SpecEmbedFail == Init /\ [][NextEmbedFail]_vars

\* the step is an upsert of a decision not yet stored, with the provider down
NewDecisionEmbedRaises ==
    \E text \in Texts :
        /\ decision_id(_derive_project_uuid("Forge OS"), text, ConvV8, now)
               \notin DOMAIN decision_registry
        /\ upsert_decision_embed_raises("D001", text, "Forge OS",
                                        _derive_project_uuid("Forge OS"),
                                        ConvV8, NoTier, "active")

\* the step is an upsert of a thread not yet stored, with the provider down
NewThreadEmbedRaises ==
    \E title \in Titles :
        /\ thread_id(_derive_project_uuid("Forge OS"), title, ConvV8, now)
               \notin DOMAIN thread_registry
        /\ upsert_thread_embed_raises("T001", title, "Forge OS",
                                      _derive_project_uuid("Forge OS"),
                                      ConvV8, "open", "medium", "", NoTier)

\* C12: if the embedding provider fails while upsert_decision or upsert_thread
\* is storing a new entity, the call does not raise: the record is stored with
\* a zero-vector embedding and the call returns action=inserted.
C12_EmbedFailureStillInserts ==
    [][/\ NewDecisionEmbedRaises =>
              /\ result'.action = "inserted"
              /\ result'.uuid \in DOMAIN decision_registry'
              /\ decision_registry'[result'.uuid].embedding = ZeroVector
       /\ NewThreadEmbedRaises =>
              /\ result'.action = "inserted"
              /\ result'.uuid \in DOMAIN thread_registry'
              /\ thread_registry'[result'.uuid].embedding = ZeroVector]_vars

(***************************************************************************)
(* entanglement.py: _UnionFind, _cluster_resonances, scan, save_scan       *)
(***************************************************************************)
MaxResonances == 4

RECURSIVE SumSeq(_)
SumSeq(s) == IF s = <<>> THEN 0 ELSE Head(s) + SumSeq(Tail(s))
ENTANGLEMENT_STRONG_THRESHOLD == 65

\* the uuid strings of the items, in the order sorted() puts them
UuidStrings == <<"dec-aaaa-1", "thr-bbbb-2", "u3", "u4", "u5", "u6">>
UuidIndex(u) == CHOOSE i \in 1..Len(UuidStrings) : UuidStrings[i] = u

_classify_tier(similarity) ==
    IF similarity >= ENTANGLEMENT_STRONG_THRESHOLD THEN "strong" ELSE "weak"

Resonance(source_uuid, target_uuid, similarity) ==
    [source_uuid |-> source_uuid, target_uuid |-> target_uuid,
     similarity |-> similarity, tier |-> _classify_tier(similarity)]

\* _UnionFind.__init__
EmptyUnionFind == [parent |-> <<>>, rank |-> <<>>]

RECURSIVE RootOf(_, _)
RootOf(parent, x) == IF parent[x] = x THEN x ELSE RootOf(parent, parent[x])

RECURSIVE PathOf(_, _)
PathOf(parent, x) == IF parent[x] = x THEN {} ELSE {x} \cup PathOf(parent, parent[x])

\* _UnionFind.find: registers x when new, compresses the path, returns the root
find(uf, x) ==
    LET known == IF x \in DOMAIN uf.parent THEN uf
                 ELSE [parent |-> (x :> x) @@ uf.parent, rank |-> (x :> 0) @@ uf.rank]
        root == RootOf(known.parent, x)
        path == PathOf(known.parent, x)
    IN [uf |-> [parent |-> [n \in DOMAIN known.parent |->
                               IF n \in path THEN root ELSE known.parent[n]],
                rank |-> known.rank],
        root |-> root]

\* union that registers both items and joins nothing
union_no_link(uf, x, y) == find(find(uf, x).uf, y).uf

\* _UnionFind.union: union by rank
union(uf, x, y) ==
    LET fx == find(uf, x)
        fy == find(fx.uf, y)
        u == fy.uf
        swap == u.rank[fx.root] < u.rank[fy.root]
        rx == IF swap THEN fy.root ELSE fx.root
        ry == IF swap THEN fx.root ELSE fy.root
    IN IF fx.root = fy.root THEN u
       ELSE [parent |-> [u.parent EXCEPT ![ry] = rx],
             rank |-> IF u.rank[rx] = u.rank[ry]
                      THEN [u.rank EXCEPT ![rx] = @ + 1] ELSE u.rank]

\* the loop `for r in resonances: uf.union(...)`; each pass works on the
\* value the pass before it left
RECURSIVE UnionAll(_, _)
UnionAll(uf, resonances) ==
    IF resonances = <<>> THEN uf
    ELSE CHOOSE done \in {UnionAll(next, Tail(resonances)) :
             next \in {union(uf, Head(resonances).source_uuid,
                             Head(resonances).target_uuid)}} : TRUE

\* _build_items_index: active decisions and unresolved threads
_build_items_index(decisions, threads) ==
    [u \in {d \in DOMAIN decisions : decisions[d].status = "active"}
           \cup {t \in DOMAIN threads : threads[t].status # "resolved"} |->
        IF u \in DOMAIN decisions /\ decisions[u].status = "active"
           /\ ~(u \in DOMAIN threads /\ threads[u].status # "resolved")
        THEN [type |-> "decision", project |-> decisions[u].project,
              local_id |-> decisions[u].local_id]
        ELSE [type |-> "thread", project |-> threads[u].project,
              local_id |-> threads[u].local_id]]

ItemInfo(all_items_by_uuid, uuid) ==
    IF uuid \in DOMAIN all_items_by_uuid
    THEN [uuid |-> uuid] @@ all_items_by_uuid[uuid]
    ELSE [uuid |-> uuid, type |-> "unknown", project |-> "", local_id |-> ""]

\* the members of S as a sequence in sorted() order
RECURSIVE SortedUuids(_)
SortedUuids(S) ==
    IF S = {} THEN <<>>
    ELSE LET first == CHOOSE u \in S : \A v \in S : UuidIndex(u) <= UuidIndex(v)
         IN <<first>> \o SortedUuids(S \ {first})

\* round(x / n, 4) for x in hundredths, as ten-thousandths
RoundedAvg(total, n) == (total * 100 * 2 + n) \div (2 * n)

\* list.sort(key=avg_similarity, reverse=True): stable
RECURSIVE InsertByAvg(_, _)
InsertByAvg(sorted, c) ==
    IF sorted = <<>> THEN <<c>>
    ELSE IF Head(sorted).avg_similarity >= c.avg_similarity
         THEN <<Head(sorted)>> \o InsertByAvg(Tail(sorted), c)
         ELSE <<c>> \o sorted

RECURSIVE SortByAvg(_, _)
SortByAvg(done, todo) ==
    IF todo = <<>> THEN done
    ELSE SortByAvg(InsertByAvg(done, Head(todo)), Tail(todo))

\* one cluster dict: the resonances of a group, its items, its statistics
ClusterDict(cluster_id, group, all_items_by_uuid) ==
    LET sorted_uuids == SortedUuids(UNION {{group[i].source_uuid, group[i].target_uuid} :
                                              i \in 1..Len(group)})
        items == [k \in 1..Len(sorted_uuids) |->
                     ItemInfo(all_items_by_uuid, sorted_uuids[k])]
        top == CHOOSE i \in 1..Len(group) :
                   /\ \A j \in 1..Len(group) : group[j].similarity <= group[i].similarity
                   /\ \A j \in 1..(i - 1) : group[j].similarity < group[i].similarity
    IN [cluster_id |-> cluster_id,
        items |-> items,
        projects |-> {items[k].project : k \in 1..Len(items)} \ {""},
        resonances |-> [i \in 1..Len(group) |->
                           [from |-> group[i].source_uuid,
                            to |-> group[i].target_uuid,
                            similarity |-> group[i].similarity,
                            tier |-> group[i].tier]],
        avg_similarity |-> RoundedAvg(
            SumSeq([i \in 1..Len(group) |-> group[i].similarity]), Len(group)),
        strongest_link |-> [from |-> group[top].source_uuid,
                            to |-> group[top].target_uuid,
                            similarity |-> group[top].similarity]]

\* the resonances whose source has this root, in the order they came
RECURSIVE GroupOf(_, _, _)
GroupOf(parent, root, resonances) ==
    IF resonances = <<>> THEN <<>>
    ELSE (IF RootOf(parent, Head(resonances).source_uuid) = root
          THEN <<Head(resonances)>> ELSE <<>>)
         \o GroupOf(parent, root, Tail(resonances))

\* the clusters of one union-find state, numbered in sorted(groups.items()) order
ClustersOf(parent, resonances, all_items_by_uuid) ==
    CHOOSE clusters \in
        {[c \in 1..Len(roots) |->
             CHOOSE dict \in {ClusterDict(c, group, all_items_by_uuid) :
                        group \in {GroupOf(parent, roots[c], resonances)}} : TRUE] :
         roots \in {SortedUuids({RootOf(parent, resonances[i].source_uuid) :
                                    i \in 1..Len(resonances)})}} : TRUE

_cluster_resonances(resonances, all_items_by_uuid) ==
    IF resonances = <<>> THEN <<>>
    ELSE CHOOSE sorted \in
             {SortByAvg(<<>>, ClustersOf(uf.parent, resonances, all_items_by_uuid)) :
              uf \in {UnionAll(EmptyUnionFind, resonances)}} : TRUE

\* what the resonance searches of a scan may find
ResonancePool ==
    {Resonance("dec-aaaa-1", "thr-bbbb-2", 80), Resonance("thr-bbbb-2", "u3", 60),
     Resonance("u3", "dec-aaaa-1", 70), Resonance("u4", "u5", 90),
     Resonance("u5", "u4", 55), Resonance("u6", "u6", 50), Resonance("u3", "u4", 65)}

ResonanceLists ==
    {sq \in UNION {[1..n -> ResonancePool] : n \in 0..MaxResonances} :
        \A i, j \in 1..Len(sq) : i # j => sq[i] # sq[j]}

ScanFrame ==
    UNCHANGED <<now, memory_events, decision_registry, display_id_counters,
                display_id_index, thread_registry, conversation_registry,
                registrants, allocators, lineage_edges, replay,
                compression_registry, blobs, writers>>

\* the dict scan() returns, without the bridges and loose ends it also lists
ScanResult(resonances, clock) ==
    LET all_items == _build_items_index(decision_registry, thread_registry)
    IN [scanned_at |-> clock,
        project |-> None,
        resonances_found |-> Len(resonances),
        clusters |-> _cluster_resonances(resonances, all_items),
        by_tier |-> [strong |-> Cardinality({i \in 1..Len(resonances) :
                                                resonances[i].tier = "strong"}),
                     weak |-> Cardinality({i \in 1..Len(resonances) :
                                              resonances[i].tier = "weak"})]]

\* scan(): reads the registries, writes nothing
scan(resonances) ==
    /\ ncalls < MaxCalls
    /\ ncalls' = ncalls + 1
    /\ result' = [op |-> "scan", action |-> "returned", resonances |-> resonances]
                 @@ ScanResult(resonances, now)
    /\ UNCHANGED entanglement_scans
    /\ ScanFrame

\* scan_and_save(): scan(), then save_scan() inserts the result under a new scan_id
scan_and_save(resonances) ==
    LET doc == [scan_id |-> Len(entanglement_scans) + 1] @@ ScanResult(resonances, now)
    IN /\ ncalls < MaxCalls
       /\ ncalls' = ncalls + 1
       /\ entanglement_scans' = Append(entanglement_scans, doc)
       /\ result' = [op |-> "scan_and_save", action |-> "saved",
                     resonances |-> resonances] @@ doc
       /\ ScanFrame

(***************************************************************************)
(* attention.py: recall.  Similarity, tier and freshness are in hundredths,*)
(* attention scores in ten-thousandths (round(score, 4)).                  *)
(***************************************************************************)
ATTENTION_DEFAULT_BUDGET == 4000
ATTENTION_MIN_SCORE == 10
TextCap == 500
TruncateAbove == 50

CATEGORY_BOOSTS == [c \in {"decision", "thread", "priming", "message"} |->
    IF c = "decision" THEN 100 ELSE IF c = "thread" THEN 80
    ELSE IF c = "priming" THEN 60 ELSE 0]

Min(a, b) == IF a <= b THEN a ELSE b
Max(a, b) == IF a >= b THEN a ELSE b

\* freshness is what _compute_freshness makes of updated_at
compute_attention(similarity, epistemic_tier, freshness, has_conflicts, category) ==
    LET tier_score == IF epistemic_tier = NoTier THEN 50
                      ELSE Max(0, Min(100, epistemic_tier))
        conflict_bonus == IF has_conflicts THEN 100 ELSE 0
        score == similarity * 45 + tier_score * 20 + freshness * 15
                 + conflict_bonus * 10 + CATEGORY_BOOSTS[category] * 10
    IN Max(0, Min(10000, score))

\* what _search_collection can return: the documents the vector index holds
Hit(uuid, local_id, category, project, similarity, epistemic_tier, freshness, has_conflicts, text_len) ==
    [uuid |-> uuid, local_id |-> local_id, category |-> category,
     project |-> project, similarity |-> similarity,
     epistemic_tier |-> epistemic_tier, freshness |-> freshness,
     has_conflicts |-> has_conflicts, text_len |-> text_len]

SearchPool ==
    {Hit("dec-aaaa-1", "D001", "decision", "Forge OS", 90, 90, 100, TRUE, 40),
     Hit("thr-bbbb-2", "", "thread", "The Nexus", 80, NoTier, 50, FALSE, 700),
     Hit("", "", "message", "", 20, NoTier, 50, FALSE, 10)}

Budgets == {0, 30, 60, 100, 600, ATTENTION_DEFAULT_BUDGET}

\* len(line) of _budget_trim: "[{category}|{attention:.2f}] {label}",
\* " ({project})" when there is one, ": {text[:500]}"
LineLen(r) ==
    LET label_len == IF r.local_id # "" THEN Len(r.local_id)
                     ELSE IF r.uuid # "" THEN Min(8, Len(r.uuid))
                     ELSE Len(r.category)
    IN 1 + Len(r.category) + 1 + 4 + 2 + label_len
       + (IF r.project # "" THEN Len(r.project) + 3 ELSE 0)
       + 2 + Min(r.text_len, TextCap)

\* _budget_trim keeping the line that crosses the budget whole
RECURSIVE TrimLoop_no_cut(_, _, _, _, _)
TrimLoop_no_cut(todo, budget, used, included, parts) ==
    IF todo = <<>> THEN [included |-> included, parts |-> parts]
    ELSE LET line_len == LineLen(Head(todo)) + 1
         IN IF used + line_len > budget
            THEN IF budget - used > TruncateAbove
                 THEN [included |-> Append(included, Head(todo)),
                       parts |-> Append(parts, line_len - 1)]
                 ELSE [included |-> included, parts |-> parts]
            ELSE TrimLoop_no_cut(Tail(todo), budget, used + line_len,
                                 Append(included, Head(todo)),
                                 Append(parts, line_len - 1))

\* _budget_trim cutting the line that crosses the budget when 50 or more
\* characters remain
RECURSIVE TrimLoop_at_least(_, _, _, _, _)
TrimLoop_at_least(todo, budget, used, included, parts) ==
    IF todo = <<>> THEN [included |-> included, parts |-> parts]
    ELSE LET line_len == LineLen(Head(todo)) + 1
         IN IF used + line_len > budget
            THEN IF budget - used >= TruncateAbove
                 THEN [included |-> Append(included, Head(todo)),
                       parts |-> Append(parts, Min(budget - used, line_len - 1))]
                 ELSE [included |-> included, parts |-> parts]
            ELSE TrimLoop_at_least(Tail(todo), budget, used + line_len,
                                   Append(included, Head(todo)),
                                   Append(parts, line_len - 1))

\* the loop of _budget_trim over the sorted results: the items included and
\* the lengths of the lines kept
RECURSIVE TrimLoop(_, _, _, _, _)
TrimLoop(todo, budget, used, included, parts) ==
    IF todo = <<>> THEN [included |-> included, parts |-> parts]
    ELSE LET line_len == LineLen(Head(todo)) + 1
         IN IF used + line_len > budget
            THEN IF budget - used > TruncateAbove
                 THEN [included |-> Append(included, Head(todo)),
                       parts |-> Append(parts, Min(budget - used, line_len - 1))]
                 ELSE [included |-> included, parts |-> parts]
            ELSE TrimLoop(Tail(todo), budget, used + line_len,
                          Append(included, Head(todo)),
                          Append(parts, line_len - 1))

_budget_trim(sorted_results, budget) == TrimLoop(sorted_results, budget, 0, <<>>, <<>>)

\* len("\n".join(parts))
JoinedLen(parts) == IF parts = <<>> THEN 0 ELSE SumSeq(parts) + Len(parts) - 1

\* the orders sorted(key=attention, reverse=True) can give a set of results
\* (equal scores keep the order the searches completed in)
SortedByAttention(S) ==
    {sq \in [1..Cardinality(S) -> S] :
        /\ \A i, j \in 1..Cardinality(S) : i # j => sq[i] # sq[j]
        /\ \A i, j \in 1..Cardinality(S) : i < j => sq[i].attention >= sq[j].attention}

\* the scans get_latest_scan may return: a full scan with the latest scanned_at
get_latest_scan(scans) ==
    LET full == {i \in 1..Len(scans) : scans[i].project = None}
    IN {i \in full : \A j \in full : scans[j].scanned_at <= scans[i].scanned_at}

\* the last cluster listing the uuid wins
ClusterOf(latest_scan, uuid) ==
    LET at == {c \in 1..Len(latest_scan.clusters) :
                  \E k \in 1..Len(latest_scan.clusters[c].items) :
                      latest_scan.clusters[c].items[k].uuid = uuid}
    IN IF at = {} THEN 0 ELSE CHOOSE c \in at : \A d \in at : d <= c

enrich_with_entanglement(results, latest_scan) ==
    IF latest_scan.clusters = <<>> THEN results
    ELSE {IF ClusterOf(latest_scan, r.uuid) = 0 THEN r
          ELSE LET cluster == latest_scan.clusters[ClusterOf(latest_scan, r.uuid)]
               IN [cluster_id |-> cluster.cluster_id,
                   cluster_projects |-> cluster.projects,
                   cluster_size |-> Len(cluster.items),
                   avg_similarity |-> cluster.avg_similarity] @@ r
          : r \in results}

NoScan == [scan_id |-> 0, scanned_at |-> 0, project |-> None, clusters |-> <<>>]

\* steps 3-5 of recall: score, drop what scores under min_score, enrich
Scored(hits, min_score) ==
    {r \in {[attention |-> compute_attention(h.similarity, h.epistemic_tier,
                               h.freshness, h.has_conflicts, h.category)] @@ h :
            h \in hits} : r.attention >= min_score * 100}

RecallFrame ==
    UNCHANGED <<now, memory_events, decision_registry, display_id_counters,
                display_id_index, thread_registry, conversation_registry,
                registrants, allocators, lineage_edges, replay,
                entanglement_scans, compression_registry, blobs, writers>>

\* recall(query, budget): `hits` is what the searches return.
\* scan_read "raises": the find_one of get_latest_scan fails, and nothing
\* between it and recall's caller catches the exception.
recall(hits, budget, scan_read) ==
    /\ ncalls < MaxCalls
    /\ ncalls' = ncalls + 1
    /\ \A h \in hits : h.similarity >= ATTENTION_MIN_SCORE
    /\ IF scan_read = "raises"
       THEN result' = [op |-> "recall", action |-> "raised", budget |-> budget,
                       total_candidates |-> Cardinality(hits)]
       ELSE \E latest \in (IF get_latest_scan(entanglement_scans) = {} THEN {NoScan}
                           ELSE {entanglement_scans[i] :
                                    i \in get_latest_scan(entanglement_scans)}) :
            \E sorted_results \in SortedByAttention(
                   enrich_with_entanglement(Scored(hits, ATTENTION_MIN_SCORE), latest)) :
               LET trimmed == _budget_trim(sorted_results, budget)
               IN result' = [op |-> "recall", action |-> "returned",
                             budget |-> budget,
                             results |-> trimmed.included,
                             context_text |-> trimmed.parts,
                             total_candidates |-> Cardinality(hits),
                             budget_used |-> JoinedLen(trimmed.parts)]
    /\ RecallFrame

\* the cached scans recall may meet
ScanInputs ==
    {<<Resonance("dec-aaaa-1", "thr-bbbb-2", 80)>>,
     <<Resonance("u4", "u5", 90), Resonance("thr-bbbb-2", "u3", 60)>>}

NextRecall ==
    \/ Tick
    \/ \E resonances \in ScanInputs : scan_and_save(resonances)
    \/ \E hits \in SUBSET SearchPool, budget \in Budgets, scan_read \in {"ok", "raises"} :
          recall(hits, budget, scan_read)

SpecRecall == Init /\ [][NextRecall]_vars

\* the step is a recall during which the read of the cached scan fails
RecallScanReadFails ==
    \E hits \in SUBSET SearchPool, budget \in Budgets : recall(hits, budget, "raises")

\* C13: a fault inside entanglement enrichment (a failed read of the cached
\* scan) does not fail recall: recall still returns its scored,
\* budget-trimmed results.
C13_EnrichmentFaultTolerated ==
    [][RecallScanReadFails =>
          /\ result'.action = "returned"
          /\ result'.budget_used <= result'.budget]_vars

\* C16: for every budget >= 0 and every candidate set, recall returns
\* budget_used <= budget, budget_used being the length of context_text.
C16_BudgetRespected ==
    (result.op = "recall" /\ result.action = "returned") =>
        /\ result.budget_used = JoinedLen(result.context_text)
        /\ result.budget_used <= result.budget

\* a recall whose last line was cut to fill the budget exactly, after a whole line
C16_Witness ==
    /\ result.op = "recall" /\ result.action = "returned"
    /\ Len(result.context_text) = 2
    /\ result.budget_used = result.budget
    /\ result.total_candidates > Len(result.results) 

\* a clustering scan about to run on one list of resonances
InitCluster ==
    /\ now = 0
    /\ ncalls = 0
    /\ result \in {[op |-> "scan", action |-> "called", resonances |-> resonances] :
                      resonances \in ResonanceLists}
    /\ memory_events = {}
    /\ decision_registry = <<>>
    /\ display_id_counters = <<>>
    /\ display_id_index = <<>>
    /\ thread_registry = <<>>
    /\ conversation_registry = <<>>
    /\ registrants = <<>>
    /\ allocators = <<>>
    /\ lineage_edges = <<>>
    /\ replay = <<>>
    /\ entanglement_scans = <<>>
    /\ compression_registry = <<>>
    /\ blobs = <<>>
    /\ writers = <<>>

NextCluster == result.action = "called" /\ scan(result.resonances)

SpecCluster == InitCluster /\ [][NextCluster]_vars

\* the items a chain of resonances links to the items of S
RECURSIVE LinkedTo(_, _)
LinkedTo(S, resonances) ==
    LET more == S \cup {r.target_uuid : r \in {q \in resonances : q.source_uuid \in S}}
                  \cup {r.source_uuid : r \in {q \in resonances : q.target_uuid \in S}}
    IN IF more = S THEN S ELSE LinkedTo(more, resonances)

ItemsOf(cluster) == {cluster.items[k].uuid : k \in 1..Len(cluster.items)}

\* C19: the clusters _cluster_resonances returns are exactly the connected
\* components of the graph whose edges are the resonances: every endpoint is
\* in exactly one cluster, and two items share a cluster iff a chain of
\* resonances links them.
C19_ClustersAreComponents ==
    (result.op = "scan" /\ result.action = "returned") =>
        LET edges == {result.resonances[i] : i \in 1..Len(result.resonances)}
            endpoints == {r.source_uuid : r \in edges} \cup {r.target_uuid : r \in edges}
            clusters == result.clusters
        IN /\ \A u \in endpoints :
                 Cardinality({c \in 1..Len(clusters) : u \in ItemsOf(clusters[c])}) = 1
           /\ \A c \in 1..Len(clusters) :
                 /\ ItemsOf(clusters[c]) # {}
                 /\ \A u \in ItemsOf(clusters[c]) :
                       ItemsOf(clusters[c]) = LinkedTo({u}, edges)

\* a scan whose resonances make components of sizes 3, 2 and 1
C19_Witness ==
    /\ result.op = "scan" /\ result.action = "returned"
    /\ Len(result.clusters) = 3
    /\ {Len(result.clusters[c].items) : c \in 1..3} = {1, 2, 3}

(***************************************************************************)
(* events.py: the insert_one of emit_event raises.  No caller wraps         *)
(* emit_event in try/except, so each handler ends there: its primary write  *)
(* has landed, no event is stored, and the exception reaches the caller.    *)
(***************************************************************************)
upsert_decision_emit_raises(local_id, text, project, project_uuid, originated_conversation_id, epistemic_tier, status) ==
    LET decision_uuid == decision_id(project_uuid, text, originated_conversation_id, now)
        text_hash == TextHash(text)
        args == <<local_id, text, project, originated_conversation_id.id,
                  epistemic_tier, status>>
        display_id == allocate_display_id(display_id_counters, project, "decision")
        inserted == InsertOne(decision_registry, decision_uuid,
                        DecisionDoc(decision_uuid, local_id, display_id, text, text_hash,
                                    project, project_uuid, originated_conversation_id,
                                    epistemic_tier, status, now))
        signal1 == _detect_by_similarity(inserted, {}, text, project, decision_uuid)
        signal2 == _detect_by_entities(inserted, text, epistemic_tier, project,
                                       decision_uuid, signal1)
    IN /\ ncalls < MaxCalls
       /\ ncalls' = ncalls + 1
       /\ IF decision_uuid \in DOMAIN decision_registry
             /\ decision_registry[decision_uuid].text_hash = text_hash
          THEN /\ decision_registry' = _validate_decision(decision_registry, decision_uuid, now)
               /\ result' = Result("upsert_decision", "raised", decision_uuid, 0, args)
               /\ UNCHANGED <<display_id_counters, display_id_index>>
          ELSE IF decision_uuid \in DOMAIN decision_registry
          THEN /\ decision_registry' = _update_decision(decision_registry, decision_uuid,
                                            local_id, text, text_hash, epistemic_tier,
                                            status, now)
               /\ result' = Result("upsert_decision", "raised", decision_uuid, 1, args)
               /\ UNCHANGED <<display_id_counters, display_id_index>>
          ELSE /\ display_id_counters' =
                      allocate_counters(display_id_counters, project, "decision")
               /\ display_id_index' =
                      register_display_id(display_id_index, display_id, decision_uuid,
                                          "decision_registry", project, now)
               /\ decision_registry' =
                      RegisterAll(inserted, decision_uuid, signal1 \cup signal2)
               /\ result' = Result("upsert_decision", "raised", decision_uuid, 2, args)
       /\ UNCHANGED <<now, memory_events>>
       /\ DecisionFrame

upsert_thread_emit_raises(local_id, title, project, project_uuid, first_seen_conversation_id, status, priority, resolution, epistemic_tier) ==
    LET thread_uuid == thread_id(project_uuid, title, first_seen_conversation_id, now)
        args == <<local_id, title, project, first_seen_conversation_id.id, status,
                  priority, resolution, epistemic_tier>>
    IN /\ ncalls < MaxCalls
       /\ ncalls' = ncalls + 1
       /\ IF thread_uuid \notin DOMAIN thread_registry
          THEN LET display_id == allocate_display_id(display_id_counters, project, "thread")
               IN /\ display_id_counters' =
                         allocate_counters(display_id_counters, project, "thread")
                  /\ thread_registry' = InsertOne(thread_registry, thread_uuid,
                         ThreadDoc(thread_uuid, local_id, display_id, title, status,
                                   project, project_uuid, first_seen_conversation_id,
                                   priority, resolution, epistemic_tier, now))
                  /\ display_id_index' =
                         register_display_id(display_id_index, display_id, thread_uuid,
                                             "thread_registry", project, now)
                  /\ result' = Result("upsert_thread", "raised", thread_uuid, 1, args)
          ELSE /\ thread_registry' = UpdateSet(thread_registry, thread_uuid,
                      thread_update_fields(thread_registry[thread_uuid], local_id, title,
                                           status, priority, first_seen_conversation_id,
                                           resolution, epistemic_tier, now))
               /\ result' = Result("upsert_thread", "raised", thread_uuid, 0, args)
               /\ UNCHANGED <<display_id_counters, display_id_index>>
       /\ UNCHANGED <<now, memory_events>>
       /\ ThreadFrame

resolve_thread_emit_raises(thread_uuid, resolution) ==
    /\ ncalls < MaxCalls
    /\ ncalls' = ncalls + 1
    /\ thread_registry' = UpdateSet(thread_registry, thread_uuid,
                              [status |-> "resolved",
                               resolution |-> resolution,
                               updated_at |-> now])
    /\ result' = Result("resolve_thread", "raised", thread_uuid, 0,
                        <<thread_uuid, resolution>>)
    /\ UNCHANGED <<now, memory_events, display_id_counters, display_id_index>>
    /\ ThreadFrame

add_edge_emit_raises(call) ==
    LET edge_uuid == lineage_id(call.source_conversation, call.target_conversation)
    IN /\ ncalls < MaxCalls
       /\ ncalls' = ncalls + 1
       /\ lineage_edges' = [lineage_edges EXCEPT !["in_order"] = add_edge(@, call, now)]
       /\ result' = Result("add_edge", "raised", edge_uuid, 0, call)
       /\ UNCHANGED <<memory_events, replay>>
       /\ LineageFrame

register_emit_raises(w) ==
    /\ registrants[w].pc = "emit"
    /\ registrants' = [registrants EXCEPT ![w].pc = "raised"]
    /\ UNCHANGED <<conversation_registry, memory_events>>
    /\ RegisterFrame

InitEventsDown ==
    /\ now = 0
    /\ ncalls = 0
    /\ result = NoResult
    /\ memory_events = {}
    /\ decision_registry = <<>>
    /\ display_id_counters = <<>>
    /\ display_id_index = <<>>
    /\ thread_registry = <<>>
    /\ conversation_registry = <<>>
    /\ registrants = [w \in Workers |-> IdleRegistrant]
    /\ allocators = <<>>
    /\ lineage_edges = [in_order |-> <<>>, reordered |-> <<>>]
    /\ replay = [history |-> <<>>, order |-> <<>>]
    /\ entanglement_scans = <<>>
    /\ compression_registry = <<>>
    /\ blobs = <<>>
    /\ writers = <<>>

DecisionEventFails ==
    \E text \in Texts :
       upsert_decision_emit_raises("D001", text, "Forge OS",
           _derive_project_uuid("Forge OS"), ConvV8, NoTier, "active")

ThreadEventFails ==
    \/ \E title \in Titles, status \in {"open", "blocked"} :
          upsert_thread_emit_raises("T001", title, "Forge OS",
              _derive_project_uuid("Forge OS"), ConvV8, status, "medium", "", NoTier)
    \/ \E u \in DOMAIN thread_registry : resolve_thread_emit_raises(u, "shipped")

EdgeEventFails == \E call \in EdgeCalls : add_edge_emit_raises(call)

NextEventsDown ==
    \/ DecisionEventFails
    \/ ThreadEventFails
    \/ EdgeEventFails
    \/ \E w \in Workers, source_id \in SourceIds :
          register_find_one(w, source_id, "Forge OS", NoCreatedAt)
    \/ \E w \in Workers : register_write(w)
    \/ \E w \in Workers : register_emit_raises(w)

SpecEventsDown == InitEventsDown /\ [][NextEventsDown]_vars

\* C14: event emission is best-effort: when writing the audit event fails,
\* upsert_decision, upsert_thread, resolve_thread, add_edge and
\* register_conversation still return their normal result after the primary
\* write.
C14_EventFailureSwallowed ==
    [][/\ (DecisionEventFails \/ ThreadEventFails \/ EdgeEventFails)
          => result'.action \in {"inserted", "updated", "validated", "resolved"}
       /\ \A w \in Workers : register_emit_raises(w) => registrants'[w].pc = "returned"]_vars

(***************************************************************************)
(* gravity.py: orchestrate.  Attention, masses, tensions and coherence in   *)
(* ten-thousandths.                                                         *)
(***************************************************************************)
GRAVITY_CONVERGENCE_BOOST == 13         \* tenths
GRAVITY_CONVERGENCE_THRESHOLD == 70     \* hundredths
GRAVITY_DIVERGENCE_TIER_DELTA == 25     \* hundredths
GRAVITY_BASELINE_COHERENCE == 5000
GapTension == 6000

ROLE_TYPES == [role \in {"connector", "navigator"} |->
    IF role = "connector" THEN "lateral" ELSE "directional"]

Lens(project_name, role) ==
    [project_name |-> project_name, role |-> role, weight |-> 10,
     gravity_type |-> ROLE_TYPES[role]]

LensLists ==
    {<<Lens("Forge OS", "navigator")>>,
     <<Lens("Forge OS", "navigator"), Lens("The Nexus", "connector")>>,
     <<Lens("The Nexus", "connector"), Lens("Forge OS", "navigator")>>}

\* the parameters recall() declares, and the keywords _run_lens passes it
RecallParameters == {"query", "project", "budget", "min_score", "collections", "db"}
LensRecallKeywords == {"query", "project", "budget", "min_score", "query_embedding", "db"}

\* a call with a keyword the function does not declare raises TypeError
RunLensRaises == ~(LensRecallKeywords \subseteq RecallParameters)

\* the words of a result's text, lower-cased
WordsOf(r) ==
    IF r.uuid = "dec-aaaa-1" THEN {"use", "d001", "cache", "for", "reads"}
    ELSE IF r.uuid = "thr-bbbb-2" THEN {"use", "d001", "cache", "for", "reads", "later"}
    ELSE {"hello"}

\* the result lists recall(project=...) can return to a lens
LensResults(hits, latest) ==
    {_budget_trim(sorted_results, ATTENTION_DEFAULT_BUDGET).included :
        sorted_results \in SortedByAttention(
            enrich_with_entanglement(Scored(hits, ATTENTION_MIN_SCORE), latest))}

\* one entry of per_lens: the except branch when the lens's recall raised
LensEntry(lens, results, total_candidates) ==
    [project |-> lens.project_name, role |-> lens.role,
     gravity_type |-> lens.gravity_type, weight |-> lens.weight,
     results |-> IF RunLensRaises THEN <<>> ELSE results,
     result_count |-> IF RunLensRaises THEN 0 ELSE Len(results),
     top_attention |-> IF RunLensRaises \/ results = <<>> THEN 0
                       ELSE results[1].attention,
     total_candidates |-> IF RunLensRaises THEN 0 ELSE total_candidates]

_summarize_item(r, role) ==
    [role |-> role, category |-> r.category, local_id |-> r.local_id,
     attention |-> r.attention, uuid |-> r.uuid]

CombinedMass(ra, rb) ==
    ((ra.attention + rb.attention) * GRAVITY_CONVERGENCE_BOOST + 5) \div 10

\* the pairs of roles the two nested loops visit, whatever order the lenses
\* completed in
RolePairs(per_lens) ==
    {pair \in SUBSET DOMAIN per_lens : Cardinality(pair) = 2}

ResultsOf(per_lens, role) ==
    {per_lens[role].results[k] : k \in 1..Len(per_lens[role].results)}

\* _detect_convergence: the convergence points, as the set of list entries
_detect_convergence(per_lens, latest) ==
    LET by_cluster ==
            {[type |-> "entanglement_cluster", lenses |-> pair,
              items |-> {_summarize_item(ra, a), _summarize_item(rb, b)},
              cluster_id |-> latest.clusters[ClusterOf(latest, ra.uuid)].cluster_id,
              combined_mass |-> CombinedMass(ra, rb)] :
             <<pair, a, b, ra, rb>> \in
                {<<pair, a, b, ra, rb>> \in
                    UNION {{pair} \X pair \X pair
                              \X ResultsOf(per_lens, CHOOSE x \in pair : TRUE)
                              \X ResultsOf(per_lens, CHOOSE y \in pair :
                                                         y # (CHOOSE x \in pair : TRUE))
                           : pair \in RolePairs(per_lens)} :
                    /\ a = (CHOOSE x \in pair : TRUE) /\ b # a
                    /\ ClusterOf(latest, ra.uuid) # 0
                    /\ ClusterOf(latest, rb.uuid) = ClusterOf(latest, ra.uuid)}}
        by_overlap ==
            {[type |-> "semantic_overlap", lenses |-> pair,
              items |-> {_summarize_item(ra, a), _summarize_item(rb, b)},
              cluster_id |-> None,
              combined_mass |-> CombinedMass(ra, rb)] :
             <<pair, a, b, ra, rb>> \in
                {<<pair, a, b, ra, rb>> \in
                    UNION {{pair} \X pair \X pair
                              \X ResultsOf(per_lens, CHOOSE x \in pair : TRUE)
                              \X ResultsOf(per_lens, CHOOSE y \in pair :
                                                         y # (CHOOSE x \in pair : TRUE))
                           : pair \in RolePairs(per_lens)} :
                    /\ a = (CHOOSE x \in pair : TRUE) /\ b # a
                    /\ Cardinality(WordsOf(ra)) >= 5 /\ Cardinality(WordsOf(rb)) >= 5
                    /\ ~(ra.uuid # "" /\ ra.uuid = rb.uuid)
                    /\ Cardinality(WordsOf(ra) \cap WordsOf(rb)) * 100 >=
                          GRAVITY_CONVERGENCE_THRESHOLD
                          * Cardinality(WordsOf(ra) \cup WordsOf(rb))}}
    IN IF Cardinality(DOMAIN per_lens) < 2 THEN {}
       ELSE (IF latest.clusters = <<>> THEN {} ELSE by_cluster) \cup by_overlap

\* _detect_divergence: gaps and tier mismatches
_detect_divergence(per_lens) ==
    LET TierOr(r) == IF r.epistemic_tier = 0 THEN 50 ELSE r.epistemic_tier
        Decisions(role) == {r \in ResultsOf(per_lens, role) :
                               r.category = "decision" /\ r.epistemic_tier # NoTier}
        Delta(da, db_item) == IF TierOr(da) >= TierOr(db_item)
                              THEN TierOr(da) - TierOr(db_item)
                              ELSE TierOr(db_item) - TierOr(da)
        gaps == {[type |-> "gap", lenses |-> pair, items |-> {}, tension_score |-> GapTension] :
                    pair \in {q \in RolePairs(per_lens) :
                                 \E a, b \in q : /\ per_lens[a].result_count > 0
                                                 /\ per_lens[b].result_count = 0}}
        mismatches ==
            UNION {{[type |-> "tier_mismatch", lenses |-> pair, items |-> {da, db_item},
                     tension_score |-> Min(10000, Delta(da, db_item) * 200)] :
                       <<da, db_item>> \in
                          {<<da, db_item>> \in
                              Decisions(CHOOSE x \in pair : TRUE)
                              \X Decisions(CHOOSE y \in pair : y # (CHOOSE x \in pair : TRUE)) :
                              Delta(da, db_item) >= GRAVITY_DIVERGENCE_TIER_DELTA}} :
                   pair \in RolePairs(per_lens)}
    IN IF Cardinality(DOMAIN per_lens) < 2 THEN {} ELSE gaps \cup mismatches

SumOf(S, Weight(_)) ==
    LET RECURSIVE Sum(_)
        Sum(T) == IF T = {} THEN 0
                  ELSE LET x == CHOOSE y \in T : TRUE IN Weight(x) + Sum(T \ {x})
    IN Sum(S)

_compute_field_coherence(total_mass, convergence_mass, divergence_tension) ==
    IF total_mass <= 0 THEN GRAVITY_BASELINE_COHERENCE
    ELSE Max(0, Min(10000,
             GRAVITY_BASELINE_COHERENCE
             + (convergence_mass * 5000) \div total_mass
             - (divergence_tension * 5000) \div Max(total_mass, 10000)))

\* the field_summary of _compose_field
FieldSummary(per_lens, convergence, divergence) ==
    LET MassOf(c) == c.combined_mass
        TensionOf(d) == d.tension_score
        LensMass(role) == SumSeq([k \in 1..Len(per_lens[role].results) |->
                                     per_lens[role].results[k].attention])
        LensCount(role) == per_lens[role].result_count
    IN [total_candidates |-> SumOf(DOMAIN per_lens, LensCount),
        convergence_points |-> Cardinality(convergence),
        divergence_points |-> Cardinality(divergence),
        field_coherence |-> _compute_field_coherence(
            SumOf(DOMAIN per_lens, LensMass),
            SumOf(convergence, MassOf), SumOf(divergence, TensionOf))]

\* orchestrate(query, lenses): hits[i] is what the searches scoped to the
\* project of lens i return.  Reads only.
orchestrate(lenses, hits) ==
    /\ ncalls < MaxCalls
    /\ ncalls' = ncalls + 1
    /\ \A i \in 1..Len(lenses) : \A h \in hits[i] : h.project = lenses[i].project_name
    /\ \E latest \in (IF get_latest_scan(entanglement_scans) = {} THEN {NoScan}
                      ELSE {entanglement_scans[i] :
                               i \in get_latest_scan(entanglement_scans)}) :
       \E results \in [1..Len(lenses) -> UNION {LensResults(hits[i], latest) :
                                                   i \in 1..Len(lenses)}] :
          /\ \A i \in 1..Len(lenses) : results[i] \in LensResults(hits[i], latest)
          /\ LET per_lens == [role \in {lenses[i].role : i \in 1..Len(lenses)} |->
                     LET i == CHOOSE j \in 1..Len(lenses) : lenses[j].role = role
                     IN LensEntry(lenses[i], results[i], Cardinality(hits[i]))]
                 convergence == _detect_convergence(per_lens, latest)
                 divergence == _detect_divergence(per_lens)
             IN result' = [op |-> "orchestrate", action |-> "returned",
                           lenses |-> lenses, hits |-> hits, latest |-> latest,
                           per_lens |-> per_lens,
                           convergence |-> convergence,
                           divergence |-> divergence,
                           field_summary |-> FieldSummary(per_lens, convergence, divergence)]
    /\ RecallFrame

NextGravity ==
    \/ Tick
    \/ \E resonances \in ScanInputs : scan_and_save(resonances)
    \/ \E lenses \in LensLists :
       \E hits \in [1..Len(lenses) -> SUBSET SearchPool] : orchestrate(lenses, hits)

SpecGravity == Init /\ [][NextGravity]_vars

\* the hit a recall ranks first
TopHits(hits) ==
    {h \in hits : \A g \in hits :
        compute_attention(g.similarity, g.epistemic_tier, g.freshness,
                          g.has_conflicts, g.category)
        <= compute_attention(h.similarity, h.epistemic_tier, h.freshness,
                             h.has_conflicts, h.category)}

\* orchestrate ran with lenses (P1, navigator), (P2, connector) whose top
\* recall hits belong to the same cluster of the cached scan
TwoLensesOneCluster ==
    /\ result.op = "orchestrate"
    /\ Len(result.lenses) = 2
    /\ {result.lenses[1].role, result.lenses[2].role} = {"navigator", "connector"}
    /\ result.lenses[1].project_name # result.lenses[2].project_name
    /\ \E a \in TopHits(result.hits[1]), b \in TopHits(result.hits[2]) :
          /\ ClusterOf(result.latest, a.uuid) # 0
          /\ ClusterOf(result.latest, a.uuid) = ClusterOf(result.latest, b.uuid)

\* C15: two lenses (P1, navigator), (P2, connector) whose top recall hits
\* belong to the same cluster of the cached entanglement scan give at least
\* one convergence point of type entanglement_cluster and a field_coherence
\* above 0.5.
C15_ClusterConvergence ==
    TwoLensesOneCluster =>
        /\ \E c \in result.convergence : c.type = "entanglement_cluster"
        /\ result.field_summary.convergence_points >= 1
        /\ result.field_summary.field_coherence > 5000

(***************************************************************************)
(* compression_registry.py, and the registration step of sync_archive      *)
(***************************************************************************)
CompressionTags == {"cmp-1", "cmp-2"}
\* "" is a sync without archive text (archive_text None or empty: both falsy)
ArchiveTexts == {"", "# archive v1", "# archive v1 ", "# archive v2"}
CapturedLists == {<<>>, <<"D001">>}

\* hashlib.sha256(text.encode("utf-8")).hexdigest(): one digest per text
compute_checksum(text) == "sha256:" \o text

\* a re-registration that leaves the stored checksum alone
register_compression_keep_checksum(collection, compression_tag, project, source_conversation, decisions_captured, archive_checksum, target_conversations, clock) ==
    IF compression_tag \notin DOMAIN collection
    THEN InsertOne(collection, compression_tag,
             [compression_tag |-> compression_tag, project |-> project,
              source_conversation |-> source_conversation,
              target_conversations |-> target_conversations,
              decisions_captured |-> decisions_captured,
              threads_captured |-> <<>>, artifacts_captured |-> <<>>,
              checksum |-> archive_checksum,
              created_at |-> clock, updated_at |-> clock])
    ELSE UpdateSet(collection, compression_tag,
             [updated_at |-> clock,
              target_conversations |->
                  AddToSetEach(collection[compression_tag].target_conversations,
                               target_conversations),
              decisions_captured |->
                  AddToSetEach(collection[compression_tag].decisions_captured,
                               decisions_captured)])

\* register_compression's write; archive_checksum "" is None
register_compression(collection, compression_tag, project, source_conversation, decisions_captured, archive_checksum, target_conversations, clock) ==
    IF compression_tag \notin DOMAIN collection
    THEN InsertOne(collection, compression_tag,
             [compression_tag |-> compression_tag, project |-> project,
              source_conversation |-> source_conversation,
              target_conversations |-> target_conversations,
              decisions_captured |-> decisions_captured,
              threads_captured |-> <<>>, artifacts_captured |-> <<>>,
              checksum |-> archive_checksum,
              created_at |-> clock, updated_at |-> clock])
    ELSE UpdateSet(collection, compression_tag,
             [updated_at |-> clock,
              target_conversations |->
                  AddToSetEach(collection[compression_tag].target_conversations,
                               target_conversations),
              decisions_captured |->
                  AddToSetEach(collection[compression_tag].decisions_captured,
                               decisions_captured)]
             @@ (IF archive_checksum # ""
                    /\ collection[compression_tag].checksum # archive_checksum
                 THEN [checksum |-> archive_checksum] ELSE <<>>))

CompressionFrame ==
    UNCHANGED <<now, decision_registry, display_id_counters, display_id_index,
                thread_registry, conversation_registry, registrants, allocators,
                lineage_edges, entanglement_scans, blobs, writers>>

\* sync_archive, lines 479-495: the checksum of the archive text, then
\* register_compression.  replay keeps the registrations made.
sync_register(compression_tag, archive_text, decisions_captured) ==
    LET checksum == IF archive_text # "" THEN compute_checksum(archive_text) ELSE ""
        action == IF compression_tag \in DOMAIN compression_registry
                  THEN "updated" ELSE "inserted"
    IN /\ ncalls < MaxCalls
       /\ ncalls' = ncalls + 1
       /\ compression_registry' =
              register_compression(compression_registry, compression_tag, "Forge OS",
                                   "conv-a", decisions_captured, checksum,
                                   <<"conv-b">>, now)
       /\ memory_events' = emit_event(memory_events, "graph.compression.registered",
              <<compression_tag, "Forge OS", action, Len(decisions_captured)>>, now)
       /\ replay' = Append(replay, [compression_tag |-> compression_tag,
                                    archive_text |-> archive_text])
       /\ result' = [op |-> "register_compression", action |-> action,
                     compression_tag |-> compression_tag]
       /\ CompressionFrame

\* verify_checksum: None for an unknown tag
verify_checksum(compression_tag, archive_text) ==
    /\ ncalls < MaxCalls
    /\ ncalls' = ncalls + 1
    /\ result' =
          IF compression_tag \notin DOMAIN compression_registry
          THEN [op |-> "verify_checksum", action |-> "none",
                compression_tag |-> compression_tag, archive_text |-> archive_text]
          ELSE [op |-> "verify_checksum", action |-> "returned",
                compression_tag |-> compression_tag, archive_text |-> archive_text,
                match |-> compute_checksum(archive_text)
                          = compression_registry[compression_tag].checksum,
                stored |-> compression_registry[compression_tag].checksum,
                computed |-> compute_checksum(archive_text)]
    /\ UNCHANGED <<compression_registry, memory_events, replay>>
    /\ CompressionFrame

NextCompression ==
    \/ Tick
    \/ \E compression_tag \in CompressionTags, archive_text \in ArchiveTexts,
          decisions_captured \in CapturedLists :
          sync_register(compression_tag, archive_text, decisions_captured)
    \/ \E compression_tag \in CompressionTags, archive_text \in ArchiveTexts :
          verify_checksum(compression_tag, archive_text)

SpecCompression == Init /\ [][NextCompression]_vars

\* the registrations of a tag that came with an archive text, in order
WithText(compression_tag) ==
    SelectSeq(replay, LAMBDA call : call.compression_tag = compression_tag
                                    /\ call.archive_text # "")

\* C17: for a registered tag, also after the tag is registered again,
\* verify_checksum(tag, text) returns match = true iff text is byte-identical
\* to the archive text the tag was (last) registered for.
C17_MatchIffSameText ==
    (result.op = "verify_checksum" /\ result.action = "returned") =>
        LET registered == WithText(result.compression_tag)
        IN result.match <=>
              /\ registered # <<>>
              /\ result.archive_text = registered[Len(registered)].archive_text

\* a verification that matches after the tag was registered for a second text
C17_Witness ==
    /\ result.op = "verify_checksum" /\ result.action = "returned"
    /\ result.match
    /\ Len(WithText(result.compression_tag)) = 2
    /\ WithText(result.compression_tag)[1].archive_text
          # WithText(result.compression_tag)[2].archive_text

(***************************************************************************)
(* blob_store.py: store and resolve on the local backend, by concurrent     *)
(* processes.  blobs is the blob directory (file name -> bytes written),    *)
(* writers the position of each process, replay the calls that returned.    *)
(* os.rename is the POSIX rename: it replaces the target in one step.       *)
(***************************************************************************)
Contents == {"alpha", "beta"}
BLOB_STORE_ENABLED == TRUE
BlobNotFoundError == "BlobNotFoundError"

\* SHA-256 of the UTF-8 bytes: one digest per content
_compute_hash(content) == "hash-of-" \o content

BlobRef(hex_hash) == <<"sha256", hex_hash>>
_parse_ref(blob_ref) == blob_ref[2]

\* the full-hash file name of _shard_path, under its two shard directories
TargetPath(hex_hash) == "blobs/" \o hex_hash

\* a store that writes the target file in place
TmpPath_in_place(w, hex_hash) == TargetPath(hex_hash)

\* tempfile.mkstemp(dir=target_dir): a fresh name in the target directory
TmpPath(w, hex_hash) == "blobs/tmp-" \o w

IdleProcess == [pc |-> "idle", content |-> "", hex_hash |-> ""]

BlobFrame ==
    UNCHANGED <<now, result, memory_events, decision_registry, display_id_counters,
                display_id_index, thread_registry, conversation_registry,
                registrants, allocators, lineage_edges, entanglement_scans,
                compression_registry>>

\* store(content), lines 276-278: None when disabled or empty, else hash
blob_store(w, content) ==
    /\ writers[w].pc = "idle"
    /\ ncalls < MaxCalls
    /\ ncalls' = ncalls + 1
    /\ IF ~BLOB_STORE_ENABLED \/ content = ""
       THEN /\ replay' = Append(replay, [op |-> "store", content |-> content,
                                         value |-> None])
            /\ UNCHANGED writers
       ELSE /\ writers' = [writers EXCEPT ![w] =
                   [pc |-> "exists", content |-> content,
                    hex_hash |-> _compute_hash(content)]]
            /\ UNCHANGED replay
    /\ UNCHANGED blobs
    /\ BlobFrame

\* _LocalBackend.store, lines 83-88: return when the target exists
store_exists(w) ==
    /\ writers[w].pc = "exists"
    /\ IF TargetPath(writers[w].hex_hash) \in DOMAIN blobs
       THEN /\ writers' = [writers EXCEPT ![w] = IdleProcess]
            /\ replay' = Append(replay, [op |-> "store", content |-> writers[w].content,
                                         value |-> BlobRef(writers[w].hex_hash)])
       ELSE /\ writers' = [writers EXCEPT ![w].pc = "mkstemp"]
            /\ UNCHANGED replay
    /\ UNCHANGED <<ncalls, blobs>>
    /\ BlobFrame

\* lines 90-92: mkdir, mkstemp: an empty file
store_mkstemp(w) ==
    /\ writers[w].pc = "mkstemp"
    /\ blobs' = [f \in DOMAIN blobs \cup {TmpPath(w, writers[w].hex_hash)} |->
                    IF f = TmpPath(w, writers[w].hex_hash) THEN "" ELSE blobs[f]]
    /\ writers' = [writers EXCEPT ![w].pc = "write"]
    /\ UNCHANGED <<ncalls, replay>>
    /\ BlobFrame

\* lines 95-97: os.write, os.close
store_write(w) ==
    /\ writers[w].pc = "write"
    /\ blobs' = [blobs EXCEPT ![TmpPath(w, writers[w].hex_hash)] = writers[w].content]
    /\ writers' = [writers EXCEPT ![w].pc = "rename"]
    /\ UNCHANGED <<ncalls, replay>>
    /\ BlobFrame

\* line 98: os.rename(tmp_path, target_path), then store returns the ref
store_rename(w) ==
    LET tmp_path == TmpPath(w, writers[w].hex_hash)
        target_path == TargetPath(writers[w].hex_hash)
    IN /\ writers[w].pc = "rename"
       /\ blobs' = [f \in (DOMAIN blobs \ {tmp_path}) \cup {target_path} |->
                       IF f = target_path THEN blobs[tmp_path] ELSE blobs[f]]
       /\ writers' = [writers EXCEPT ![w] = IdleProcess]
       /\ replay' = Append(replay, [op |-> "store", content |-> writers[w].content,
                                    value |-> BlobRef(writers[w].hex_hash)])
       /\ UNCHANGED ncalls
       /\ BlobFrame

\* resolve(blob_ref), lines 284-285, for the ref of some content
blob_resolve(w, blob_ref) ==
    /\ writers[w].pc = "idle"
    /\ ncalls < MaxCalls
    /\ ncalls' = ncalls + 1
    /\ writers' = [writers EXCEPT ![w] =
           [pc |-> "resolve_exists", content |-> "", hex_hash |-> _parse_ref(blob_ref)]]
    /\ UNCHANGED <<blobs, replay>>
    /\ BlobFrame

\* _LocalBackend.resolve, lines 110-114: raise when the target is missing
resolve_exists(w) ==
    /\ writers[w].pc = "resolve_exists"
    /\ IF TargetPath(writers[w].hex_hash) \notin DOMAIN blobs
       THEN /\ writers' = [writers EXCEPT ![w] = IdleProcess]
            /\ replay' = Append(replay, [op |-> "resolve",
                                         content |-> BlobRef(writers[w].hex_hash),
                                         value |-> BlobNotFoundError])
       ELSE /\ writers' = [writers EXCEPT ![w].pc = "read_text"]
            /\ UNCHANGED replay
    /\ UNCHANGED <<ncalls, blobs>>
    /\ BlobFrame

\* line 116: read_text of the target
resolve_read_text(w) ==
    /\ writers[w].pc = "read_text"
    /\ writers' = [writers EXCEPT ![w] = IdleProcess]
    /\ replay' = Append(replay, [op |-> "resolve",
                                 content |-> BlobRef(writers[w].hex_hash),
                                 value |-> blobs[TargetPath(writers[w].hex_hash)]])
    /\ UNCHANGED <<ncalls, blobs>>
    /\ BlobFrame

InitBlobs ==
    /\ now = 0
    /\ ncalls = 0
    /\ result = NoResult
    /\ memory_events = {}
    /\ decision_registry = <<>>
    /\ display_id_counters = <<>>
    /\ display_id_index = <<>>
    /\ thread_registry = <<>>
    /\ conversation_registry = <<>>
    /\ registrants = <<>>
    /\ allocators = <<>>
    /\ lineage_edges = <<>>
    /\ replay = <<>>
    /\ entanglement_scans = <<>>
    /\ compression_registry = <<>>
    /\ blobs = <<>>
    /\ writers = [w \in Workers |-> IdleProcess]

NextBlobs ==
    \/ \E w \in Workers, content \in Contents : blob_store(w, content)
    \/ \E w \in Workers : store_exists(w)
    \/ \E w \in Workers : store_mkstemp(w)
    \/ \E w \in Workers : store_write(w)
    \/ \E w \in Workers : store_rename(w)
    \/ \E w \in Workers, content \in Contents :
          blob_resolve(w, BlobRef(_compute_hash(content)))
    \/ \E w \in Workers : resolve_exists(w)
    \/ \E w \in Workers : resolve_read_text(w)

SpecBlobs == InitBlobs /\ [][NextBlobs]_vars

STALE_MAX_HOPS == 3
STALE_MAX_DAYS == 30
Today == 40
HopCounts == {0, 2, 3, 4}
AgesInDays == {0, 29, 30, 31}

\* a staleness filter that needs more than max_hops hops
StaleFilter_above(doc, project, max_hops, cutoff) ==
    /\ doc.project = project
    /\ doc.status = "active"
    /\ (doc.hops_since_validated > max_hops \/ doc.last_validated <= cutoff)

\* the find() filter of get_stale_decisions
StaleFilter(doc, project, max_hops, cutoff) ==
    /\ doc.project = project
    /\ doc.status = "active"
    /\ (doc.hops_since_validated >= max_hops \/ doc.last_validated <= cutoff)

get_stale_decisions(project) ==
    LET cutoff == now - STALE_MAX_DAYS
    IN /\ ncalls < MaxCalls
       /\ ncalls' = ncalls + 1
       /\ result' = [op |-> "get_stale_decisions", action |-> "returned",
                     project |-> project,
                     uuids |-> {u \in DOMAIN decision_registry :
                                   StaleFilter(decision_registry[u], project,
                                               STALE_MAX_HOPS, cutoff)}]
       /\ UNCHANGED <<now, memory_events, decision_registry, display_id_counters,
                      display_id_index>>
       /\ DecisionFrame

\* a registry as upserts, supersessions, hop increments and the passing of
\* days leave it: two decisions, each validated some days ago
StaleDoc(text, project, status, hops, age) ==
    LET project_uuid == _derive_project_uuid(project)
        decision_uuid == decision_id(project_uuid, text, ConvV8, 0)
    IN [DecisionDoc(decision_uuid, "D001", "", text, TextHash(text), project,
                    project_uuid, ConvV8, NoTier, status, Today - age)
           EXCEPT !.hops_since_validated = hops]

InitStale ==
    /\ now = Today
    /\ ncalls = 0
    /\ result = NoResult
    /\ memory_events = {}
    /\ decision_registry \in
          {(a.uuid :> a) @@ (b.uuid :> b) :
              a \in {StaleDoc("use D001 cache", project, status, hops, age) :
                        project \in Projects, status \in {"active", "superseded"},
                        hops \in HopCounts, age \in AgesInDays},
              b \in {StaleDoc("drop D001 cache", "Forge OS", "active", hops, age) :
                        hops \in HopCounts, age \in AgesInDays}}
    /\ display_id_counters = <<>>
    /\ display_id_index = <<>>
    /\ thread_registry = <<>>
    /\ conversation_registry = <<>>
    /\ registrants = <<>>
    /\ allocators = <<>>
    /\ lineage_edges = <<>>
    /\ replay = <<>>
    /\ entanglement_scans = <<>>
    /\ compression_registry = <<>>
    /\ blobs = <<>>
    /\ writers = <<>>

NextStale == \E project \in Projects : get_stale_decisions(project)

SpecStale == InitStale /\ [][NextStale]_vars

\* C20: get_stale_decisions returns a decision (of the project asked for) if
\* and only if its status is active and hops_since_validated >= 3 or
\* last_validated <= now - 30 days.
C20_StaleIffActiveAndOld ==
    result.op = "get_stale_decisions" =>
        \A u \in DOMAIN decision_registry :
           u \in result.uuids <=>
              /\ decision_registry[u].project = result.project
              /\ decision_registry[u].status = "active"
              /\ \/ decision_registry[u].hops_since_validated >= 3
                 \/ decision_registry[u].last_validated <= now - 30

\* the three cases: hops 2 validated today is left out, hops 3 validated
\* today is returned, and so is hops 0 validated 31 days ago
C20_Witness ==
    /\ result.op = "get_stale_decisions"
    /\ \E u \in DOMAIN decision_registry \ result.uuids :
          /\ decision_registry[u].project = result.project
          /\ decision_registry[u].status = "active"
          /\ decision_registry[u].hops_since_validated = 2
          /\ decision_registry[u].last_validated = now
    /\ \E u \in result.uuids :
          \/ /\ decision_registry[u].hops_since_validated = 3
             /\ decision_registry[u].last_validated = now
          \/ /\ decision_registry[u].hops_since_validated = 0
             /\ decision_registry[u].last_validated = now - 31

(***************************************************************************)
(* lineage.py: concurrent add_edge calls.  writers is the position of each  *)
(* call: its find_one, its write, its event.  db.py creates a unique index  *)
(* on edge_uuid, so the collection is keyed by edge_uuid and an insert_one  *)
(* of a stored edge_uuid raises DuplicateKeyError.                          *)
(***************************************************************************)
RaceEdgeCalls ==
    {EdgeCall("conv-a", "conv-b", "t1", <<"x">>, <<>>, <<>>, <<>>, "", ""),
     EdgeCall("conv-b", "conv-a", "", <<"y">>, <<>>, <<>>, <<>>, "", ""),
     EdgeCall("conv-b", "conv-c", "t2", <<"y">>, <<>>, <<>>, <<>>, "", "")}

IdleEdgeWriter == [pc |-> "idle", call |-> None, existing |-> FALSE, action |-> ""]

EdgeRaceFrame ==
    UNCHANGED <<now, result, decision_registry, display_id_counters,
                display_id_index, thread_registry, conversation_registry,
                registrants, allocators, replay, entanglement_scans,
                compression_registry, blobs>>

\* lines 53-59: derive edge_uuid, find_one({"edge_uuid": edge_uuid})
edge_find_one(w, call) ==
    /\ writers[w].pc \in {"idle", "returned", "raised"}
    /\ ncalls < MaxCalls
    /\ ncalls' = ncalls + 1
    /\ writers' = [writers EXCEPT ![w] =
           [pc |-> "write", call |-> call,
            existing |-> lineage_id(call.source_conversation,
                                    call.target_conversation) \in DOMAIN lineage_edges,
            action |-> ""]]
    /\ UNCHANGED <<lineage_edges, memory_events>>
    /\ EdgeRaceFrame

\* lines 61-99: insert_one when the read found nothing, else update_one
edge_write(w) ==
    LET call == writers[w].call
        edge_uuid == lineage_id(call.source_conversation, call.target_conversation)
    IN /\ writers[w].pc = "write"
       /\ IF ~writers[w].existing /\ edge_uuid \in DOMAIN lineage_edges
          THEN /\ writers' = [writers EXCEPT ![w].pc = "raised",
                                             ![w].action = "DuplicateKeyError"]
               /\ UNCHANGED lineage_edges
          ELSE /\ lineage_edges' = add_edge(lineage_edges, call, now)
               /\ writers' = [writers EXCEPT ![w].pc = "emit",
                      ![w].action = IF writers[w].existing THEN "updated" ELSE "inserted"]
       /\ UNCHANGED <<ncalls, memory_events>>
       /\ EdgeRaceFrame

\* lines 101-112: the event, then return {action, edge_uuid}
edge_emit(w) ==
    LET call == writers[w].call
    IN /\ writers[w].pc = "emit"
       /\ memory_events' = emit_event(memory_events, "graph.lineage.edge",
              <<lineage_id(call.source_conversation, call.target_conversation),
                call.source_conversation, call.target_conversation,
                writers[w].action>>, now)
       /\ writers' = [writers EXCEPT ![w].pc = "returned"]
       /\ UNCHANGED <<ncalls, lineage_edges>>
       /\ EdgeRaceFrame

InitEdgeRace ==
    /\ now = 0
    /\ ncalls = 0
    /\ result = NoResult
    /\ memory_events = {}
    /\ decision_registry = <<>>
    /\ display_id_counters = <<>>
    /\ display_id_index = <<>>
    /\ thread_registry = <<>>
    /\ conversation_registry = <<>>
    /\ registrants = <<>>
    /\ allocators = <<>>
    /\ lineage_edges = <<>>
    /\ replay = <<>>
    /\ entanglement_scans = <<>>
    /\ compression_registry = <<>>
    /\ blobs = <<>>
    /\ writers = [w \in Workers |-> IdleEdgeWriter]

NextEdgeRace ==
    \/ \E w \in Workers, call \in RaceEdgeCalls : edge_find_one(w, call)
    \/ \E w \in Workers : edge_write(w)
    \/ \E w \in Workers : edge_emit(w)

SpecEdgeRace == InitEdgeRace /\ [][NextEdgeRace]_vars

\* C21: after any sequence of add_edge calls, in either direction and
\* concurrent ones for the same pair included, the store holds at most one
\* edge per unordered pair of conversations, and every call completes as an
\* insert or an update of that edge.
C21_OneEdgePerPair ==
    /\ \A e, f \in DOMAIN lineage_edges :
          {lineage_edges[e].source_conversation, lineage_edges[e].target_conversation}
          = {lineage_edges[f].source_conversation, lineage_edges[f].target_conversation}
          => e = f
    /\ \A w \in Workers :
          /\ writers[w].pc # "raised"
          /\ writers[w].pc = "returned" => writers[w].action \in {"inserted", "updated"}

(***************************************************************************)
(* attention.py: the searches of recall.  _search_collection adds the       *)
(* project and status filter to $vectorSearch only when a project is given. *)
(***************************************************************************)
_COLLECTION_META ==
    [decision_registry |-> "decision", thread_registry |-> "thread",
     priming_registry |-> "priming", message_embeddings |-> "message"]

SearchDoc(collection_name, uuid, local_id, project, status, similarity, epistemic_tier, text_len) ==
    [source |-> collection_name, uuid |-> uuid, local_id |-> local_id,
     project |-> project, status |-> status, similarity |-> similarity,
     epistemic_tier |-> epistemic_tier, text_len |-> text_len]

\* the documents the vector index can hold
SearchDocs ==
    {SearchDoc("decision_registry", "dec-1", "D001", "Forge OS", "active", 90, 90, 40),
     SearchDoc("decision_registry", "dec-2", "D002", "Forge OS", "superseded", 85, 60, 30),
     SearchDoc("thread_registry", "thr-1", "T001", "Forge OS", "open", 80, NoTier, 20),
     SearchDoc("thread_registry", "thr-2", "T002", "The Nexus", "resolved", 75, NoTier, 20),
     SearchDoc("priming_registry", "pri-1", "", "Forge OS", "active", 70, NoTier, 60),
     SearchDoc("priming_registry", "pri-2", "", "The Nexus", "inactive", 65, NoTier, 60),
     SearchDoc("message_embeddings", "", "", "The Nexus", "", 5, NoTier, 10)}

MaxSearchDocs == 3

\* the filter of the $vectorSearch stage (lines 152-160); "" is the project
\* argument left at None, both false at `if project and project_field`
SearchFilter(collection_name, project, doc) ==
    IF project # ""
    THEN /\ doc.project = project
         /\ collection_name = "decision_registry" => doc.status = "active"
         /\ collection_name = "thread_registry" => doc.status # "resolved"
         /\ collection_name = "priming_registry" => doc.status = "active"
    ELSE TRUE

_search_collection(collection_name, docs, project, min_sim) ==
    {[status |-> doc.status, source |-> collection_name] @@
        Hit(doc.uuid, doc.local_id, _COLLECTION_META[collection_name], doc.project,
            doc.similarity, doc.epistemic_tier, 100, FALSE, doc.text_len) :
     doc \in {d \in docs : /\ d.source = collection_name
                           /\ SearchFilter(collection_name, project, d)
                           /\ d.similarity >= min_sim}}

_parallel_search(docs, project, min_sim) ==
    UNION {_search_collection(c, docs, project, min_sim) : c \in DOMAIN _COLLECTION_META}

\* recall(query, project): the documents are those the index holds
recall_search ==
    /\ result.action = "called"
    /\ \E sorted_results \in SortedByAttention(
           enrich_with_entanglement(
               Scored(_parallel_search(result.docs, result.project, ATTENTION_MIN_SCORE),
                      ATTENTION_MIN_SCORE), NoScan)) :
          LET trimmed == _budget_trim(sorted_results, ATTENTION_DEFAULT_BUDGET)
          IN result' = [op |-> "recall", action |-> "returned",
                        project |-> result.project,
                        results |-> trimmed.included,
                        total_candidates |->
                            Cardinality(_parallel_search(result.docs, result.project,
                                                         ATTENTION_MIN_SCORE)),
                        budget_used |-> JoinedLen(trimmed.parts)]
    /\ UNCHANGED ncalls
    /\ RecallFrame

InitSearch ==
    /\ now = 0
    /\ ncalls = 0
    /\ \E docs \in {S \in SUBSET SearchDocs : Cardinality(S) <= MaxSearchDocs},
          project \in {"", "Forge OS", "The Nexus"} :
          result = [op |-> "recall", action |-> "called", docs |-> docs,
                    project |-> project]
    /\ memory_events = {}
    /\ decision_registry = <<>>
    /\ display_id_counters = <<>>
    /\ display_id_index = <<>>
    /\ thread_registry = <<>>
    /\ conversation_registry = <<>>
    /\ registrants = <<>>
    /\ allocators = <<>>
    /\ lineage_edges = <<>>
    /\ replay = <<>>
    /\ entanglement_scans = <<>>
    /\ compression_registry = <<>>
    /\ blobs = <<>>
    /\ writers = <<>>

NextSearch == recall_search

SpecSearch == InitSearch /\ [][NextSearch]_vars

\* C22: recall never returns a decision that is not active, a resolved
\* thread or an inactive priming block, with or without a project argument.
C22_OnlyLiveItems ==
    (result.op = "recall" /\ result.action = "returned") =>
        \A i \in 1..Len(result.results) :
            /\ result.results[i].source = "decision_registry"
                  => result.results[i].status = "active"
            /\ result.results[i].source = "thread_registry"
                  => result.results[i].status # "resolved"
            /\ result.results[i].source = "priming_registry"
                  => result.results[i].status = "active"

(***************************************************************************)
(* gravity.py: the context text of _compose_field.  A text is the sequence  *)
(* of the lengths of its lines; "\n".join(parts) has JoinedLen(parts)       *)
(* characters.  Scores print as {:.2f}, four characters below 10.           *)
(***************************************************************************)
ScoreLen == 4

ConvergenceHeader == "=== CONVERGENCE (amplified gravity) ==="
DivergenceHeader == "=== DIVERGENCE (decision tension) ==="

\* f"[{cp['type']}|mass={cp['combined_mass']:.2f}] {cp['summary']}"
ConvergenceLineLen(cp) == 1 + Len(cp.type) + 6 + ScoreLen + 2 + cp.summary_len

\* f"  [{item['role']}] {local_id} (att={attention:.2f}): {text[:150]}"
ItemLineLen(item) ==
    3 + Len(item.role) + 2 + Len(item.local_id) + 6 + ScoreLen + 3
    + Min(item.text_len, 150)

\* f"=== {role.upper()} ({data['project']}) — {gravity_type} gravity ==="
LensHeaderLen(data) ==
    4 + Len(data.role) + 2 + Len(data.project) + 4 + Len(data.gravity_type) + 12

\* f"[{category}|{attention:.2f}] {label}: {text[:200]}"
ResultLineLen(r) ==
    1 + Len(r.category) + 1 + ScoreLen + 2
    + (IF r.local_id # "" THEN Len(r.local_id) ELSE Min(8, Len(r.uuid)))
    + 2 + Min(r.text_len, 200)

\* f"[{dp['type']}|tension={tension_score:.2f}] {description[:200]}"
DivergenceLineLen(dp) == 1 + Len(dp.type) + 9 + ScoreLen + 2 + Min(dp.description_len, 200)

\* a loop that appends each line that fits and goes on past one that does not
RECURSIVE AppendFitting(_, _, _)
AppendFitting(lens_of_lines, budget, parts) ==
    IF lens_of_lines = <<>> THEN parts
    ELSE AppendFitting(Tail(lens_of_lines), budget,
             IF SumSeq(parts) + Len(parts) + Head(lens_of_lines) + 1 <= budget
             THEN Append(parts, Head(lens_of_lines)) ELSE parts)

\* a loop that appends lines until one does not fit
RECURSIVE AppendUntilFull(_, _, _)
AppendUntilFull(lens_of_lines, budget, parts) ==
    IF lens_of_lines = <<>> THEN parts
    ELSE IF SumSeq(parts) + Len(parts) + Head(lens_of_lines) + 1 > budget THEN parts
    ELSE AppendUntilFull(Tail(lens_of_lines), budget, Append(parts, Head(lens_of_lines)))

\* lines 455-478: the header, then for each point its items and its line
RECURSIVE ConvergencePart(_, _, _)
ConvergencePart(convergence, budget, parts) ==
    IF convergence = <<>> THEN parts
    ELSE ConvergencePart(Tail(convergence), budget,
             AppendFitting(
                 [k \in 1..Len(Head(convergence).items) |->
                     ItemLineLen(Head(convergence).items[k])]
                 \o <<ConvergenceLineLen(Head(convergence))>>,
                 budget, parts))

\* lines 480-509: per lens, by top_attention: the header, then its results
RECURSIVE LensPart(_, _, _)
LensPart(lens_entries, budget, parts) ==
    IF lens_entries = <<>> THEN parts
    ELSE IF SumSeq(parts) + Len(parts) + LensHeaderLen(Head(lens_entries)) + 1 > budget
         THEN parts
    ELSE LensPart(Tail(lens_entries), budget,
             AppendUntilFull(
                 [k \in 1..Len(Head(lens_entries).results) |->
                     ResultLineLen(Head(lens_entries).results[k])],
                 budget, Append(parts, LensHeaderLen(Head(lens_entries)))))

\* lines 511-527: the header when it fits, then at most three notes
DivergencePart(divergence, budget, parts) ==
    IF divergence = <<>> THEN parts
    ELSE IF SumSeq(parts) + Len(parts) + Len(DivergenceHeader) + 1 <= budget
         THEN AppendUntilFull(
                  [k \in 1..Min(3, Len(divergence)) |-> DivergenceLineLen(divergence[k])],
                  budget, Append(parts, Len(DivergenceHeader)))
         ELSE parts

\* the lines of context_text; lens_entries is per_lens sorted by top_attention
_compose_field(lens_entries, convergence, divergence, budget) ==
    DivergencePart(divergence, budget,
        LensPart(lens_entries, budget,
            ConvergencePart(convergence, budget,
                IF convergence = <<>> THEN <<>> ELSE <<Len(ConvergenceHeader)>>)))

ConvergenceItem(role, local_id, text_len) ==
    [role |-> role, local_id |-> local_id, text_len |-> text_len]

ConvergencePoint(type, summary_len, items) ==
    [type |-> type, summary_len |-> summary_len, items |-> items]

ConvergenceInputs ==
    {<<>>,
     <<ConvergencePoint("semantic_overlap", 70,
          <<ConvergenceItem("navigator", "D001", 40),
            ConvergenceItem("connector", "D007", 300)>>)>>,
     <<ConvergencePoint("entanglement_cluster", 60,
          <<ConvergenceItem("navigator", "D001", 10),
            ConvergenceItem("connector", "", 10)>>),
       ConvergencePoint("semantic_overlap", 70,
          <<ConvergenceItem("navigator", "D002", 40),
            ConvergenceItem("connector", "D007", 40)>>)>>}

ComposeResult(category, uuid, local_id, text_len) ==
    [category |-> category, uuid |-> uuid, local_id |-> local_id, text_len |-> text_len]

ComposeLens(role, project, results) ==
    [role |-> role, project |-> project, gravity_type |-> ROLE_TYPES[role],
     results |-> results]

LensInputs ==
    {<<ComposeLens("navigator", "Forge OS", <<>>)>>,
     <<ComposeLens("navigator", "Forge OS",
          <<ComposeResult("decision", "dec-aaaa-1", "D001", 40),
            ComposeResult("thread", "thr-bbbb-2", "", 700)>>),
       ComposeLens("connector", "The Nexus", <<>>)>>,
     <<ComposeLens("connector", "The Nexus",
          <<ComposeResult("decision", "dec-cccc-3", "D007", 300)>>),
       ComposeLens("navigator", "Forge OS",
          <<ComposeResult("decision", "dec-aaaa-1", "D001", 40)>>)>>}

DivergencePoint(type, description_len) ==
    [type |-> type, description_len |-> description_len]

DivergenceInputs ==
    {<<>>,
     <<DivergencePoint("gap", 120)>>,
     <<DivergencePoint("tier_mismatch", 90), DivergencePoint("gap", 120),
       DivergencePoint("gap", 250), DivergencePoint("gap", 120)>>}

ComposeBudgets == {0, 20, 39, 40, 90, 200, 400, 6000}

\* steps 6 and 7 of orchestrate: compose the field, report the budget used
compose_field ==
    /\ result.action = "called"
    /\ result' = [op |-> "compose", action |-> "returned",
                  budget |-> result.budget,
                  convergence |-> result.convergence,
                  context_text |-> _compose_field(result.lens_entries,
                      result.convergence, result.divergence, result.budget),
                  budget_used |-> JoinedLen(_compose_field(result.lens_entries,
                      result.convergence, result.divergence, result.budget))]
    /\ UNCHANGED ncalls
    /\ RecallFrame

InitCompose ==
    /\ now = 0
    /\ ncalls = 0
    /\ \E lens_entries \in LensInputs, convergence \in ConvergenceInputs,
          divergence \in DivergenceInputs, budget \in ComposeBudgets :
          result = [op |-> "compose", action |-> "called",
                    lens_entries |-> lens_entries, convergence |-> convergence,
                    divergence |-> divergence, budget |-> budget]
    /\ memory_events = {}
    /\ decision_registry = <<>>
    /\ display_id_counters = <<>>
    /\ display_id_index = <<>>
    /\ thread_registry = <<>>
    /\ conversation_registry = <<>>
    /\ registrants = <<>>
    /\ allocators = <<>>
    /\ lineage_edges = <<>>
    /\ replay = <<>>
    /\ entanglement_scans = <<>>
    /\ compression_registry = <<>>
    /\ blobs = <<>>
    /\ writers = <<>>

NextCompose == compose_field

SpecCompose == InitCompose /\ [][NextCompose]_vars

TierValues == {NoTier, 0, 10, 20, 30, 50, 60, 75, 90, 100}

\* the per_lens entry of a lens whose recall returned `results`
LensWith(lens, results) ==
    [project |-> lens.project_name, role |-> lens.role,
     gravity_type |-> lens.gravity_type, weight |-> lens.weight,
     results |-> results, result_count |-> Len(results),
     top_attention |-> IF results = <<>> THEN 0 ELSE results[1].attention,
     total_candidates |-> Len(results)]

DecisionHit(uuid, local_id, project, epistemic_tier) ==
    [attention |-> compute_attention(80, epistemic_tier, 100, FALSE, "decision")]
    @@ Hit(uuid, local_id, "decision", project, 80, epistemic_tier, 100, FALSE, 40)

\* step 5 of orchestrate on the per_lens of two lenses with one decision each
detect_divergence ==
    /\ result.action = "called"
    /\ result' = [op |-> "divergence", action |-> "returned",
                  tier_a |-> result.tier_a, tier_b |-> result.tier_b,
                  divergence |-> _detect_divergence(
                      [role \in {"navigator", "connector"} |->
                          IF role = "navigator"
                          THEN LensWith(Lens("Forge OS", "navigator"),
                                   <<DecisionHit("dec-aaaa-1", "D001", "Forge OS",
                                                 result.tier_a)>>)
                          ELSE LensWith(Lens("The Nexus", "connector"),
                                   <<DecisionHit("dec-cccc-3", "D007", "The Nexus",
                                                 result.tier_b)>>)])]
    /\ UNCHANGED ncalls
    /\ RecallFrame

InitDivergence ==
    /\ now = 0
    /\ ncalls = 0
    /\ \E tier_a \in TierValues, tier_b \in TierValues :
          result = [op |-> "divergence", action |-> "called",
                    tier_a |-> tier_a, tier_b |-> tier_b]
    /\ memory_events = {}
    /\ decision_registry = <<>>
    /\ display_id_counters = <<>>
    /\ display_id_index = <<>>
    /\ thread_registry = <<>>
    /\ conversation_registry = <<>>
    /\ registrants = <<>>
    /\ allocators = <<>>
    /\ lineage_edges = <<>>
    /\ replay = <<>>
    /\ entanglement_scans = <<>>
    /\ compression_registry = <<>>
    /\ blobs = <<>>
    /\ writers = <<>>

NextDivergence == detect_divergence

SpecDivergence == InitDivergence /\ [][NextDivergence]_vars

TrimBudgets == {0, 49, 50, 51, 73, 74, 100, 124, 125, 600, ATTENTION_DEFAULT_BUDGET}

\* step 5 of recall: trim the scored results to the budget
budget_trim ==
    /\ result.action = "called"
    /\ result' = [op |-> "trim", action |-> "returned",
                  sorted_results |-> result.sorted_results,
                  budget |-> result.budget,
                  included |-> _budget_trim(result.sorted_results, result.budget).included,
                  parts |-> _budget_trim(result.sorted_results, result.budget).parts]
    /\ UNCHANGED ncalls
    /\ RecallFrame

InitTrim ==
    /\ now = 0
    /\ ncalls = 0
    /\ \E hits \in SUBSET SearchPool, budget \in TrimBudgets :
       \E sorted_results \in SortedByAttention(Scored(hits, ATTENTION_MIN_SCORE)) :
          result = [op |-> "trim", action |-> "called",
                    sorted_results |-> sorted_results, budget |-> budget]
    /\ memory_events = {}
    /\ decision_registry = <<>>
    /\ display_id_counters = <<>>
    /\ display_id_index = <<>>
    /\ thread_registry = <<>>
    /\ conversation_registry = <<>>
    /\ registrants = <<>>
    /\ allocators = <<>>
    /\ lineage_edges = <<>>
    /\ replay = <<>>
    /\ entanglement_scans = <<>>
    /\ compression_registry = <<>>
    /\ blobs = <<>>
    /\ writers = <<>>

NextTrim == budget_trim

SpecTrim == InitTrim /\ [][NextTrim]_vars

\* the characters used by the first k lines, newlines included
UsedBy(sorted_results, k) ==
    SumSeq([i \in 1..k |-> LineLen(sorted_results[i]) + 1])

\* the number of leading items that fit whole
FitCount(sorted_results, budget) ==
    CHOOSE k \in 0..Len(sorted_results) :
        /\ UsedBy(sorted_results, k) <= budget
        /\ k < Len(sorted_results) => UsedBy(sorted_results, k + 1) > budget

\* a trim returned and some item did not fit
TrimHitBoundary ==
    /\ result.op = "trim" /\ result.action = "returned"
    /\ FitCount(result.sorted_results, result.budget) < Len(result.sorted_results)

\* the budget left when the first item that does not fit is reached
Remaining ==
    result.budget - UsedBy(result.sorted_results,
                           FitCount(result.sorted_results, result.budget))

\* C25 as stated: the item that does not fit is included truncated whenever
\* at least 50 characters remain (exactly 50 included), and discarded only
\* when fewer than 50 remain.
C25_TruncateAtLeastFifty ==
    TrimHitBoundary =>
        IF Remaining >= 50
        THEN Len(result.included)
                = FitCount(result.sorted_results, result.budget) + 1
        ELSE Len(result.included) = FitCount(result.sorted_results, result.budget)

\* C25 amended: the item that does not fit is included, cut to the remaining
\* budget, when more than 50 characters remain, and discarded (with every
\* later item) when 50 or fewer remain.
C25_TruncateAboveFifty ==
    TrimHitBoundary =>
        LET k == FitCount(result.sorted_results, result.budget)
        IN IF Remaining > 50
           THEN /\ Len(result.included) = k + 1
                /\ result.included[k + 1] = result.sorted_results[k + 1]
                /\ result.parts[k + 1] = Remaining
           ELSE /\ Len(result.included) = k
                /\ Len(result.parts) = k

\* an item did not fit with exactly 50 characters left and was discarded,
\* after an item that fitted
C25_Witness ==
    /\ TrimHitBoundary
    /\ Remaining = 50
    /\ FitCount(result.sorted_results, result.budget) = 1
    /\ Len(result.included) = 1

(***************************************************************************)
(* lineage.py: get_ancestors and get_descendants.  result is the position   *)
(* of the walk: the iterations done, the current conversation, the edges    *)
(* collected.  The stored edges are any the unique edge_uuid index allows:  *)
(* at most one per unordered pair, self edges and cycles included.          *)
(***************************************************************************)
Depths == {0, 1, 2, 3, 5}

\* the edge directions a store may hold for each pair of conversations
PairChoices ==
    [{"ab", "bc", "ca"} -> {"none", "forward", "backward"}] \X {"none", "self"}

EdgeOfChoice(pair, choice) ==
    LET s == IF pair = "ab" THEN "conv-a" ELSE IF pair = "bc" THEN "conv-b" ELSE "conv-c"
        t == IF pair = "ab" THEN "conv-b" ELSE IF pair = "bc" THEN "conv-c" ELSE "conv-a"
    IN IF choice = "forward" THEN {<<s, t>>}
       ELSE IF choice = "backward" THEN {<<t, s>>} ELSE {}

\* the collection after add_edge(source, target) for each pair of the set
RECURSIVE StoreOf(_)
StoreOf(pairs) ==
    IF pairs = {} THEN <<>>
    ELSE LET p == CHOOSE q \in pairs : TRUE
         IN add_edge(StoreOf(pairs \ {p}),
                     EdgeCall(p[1], p[2], "", <<>>, <<>>, <<>>, <<>>, "", ""), 0)

WalkFrame ==
    UNCHANGED <<now, ncalls, memory_events, decision_registry, display_id_counters,
                display_id_index, thread_registry, conversation_registry,
                registrants, allocators, lineage_edges, replay,
                entanglement_scans, compression_registry, blobs, writers>>

\* range(depth) running one iteration too many
WalkRange_one_more(i, depth) == i <= depth

\* for _ in range(depth): iteration i + 1 runs
WalkRange(i, depth) == i < depth

\* one iteration of get_ancestors (lines 132-140), or its return
get_ancestors_iter ==
    /\ result.op = "get_ancestors" /\ result.action = "walking"
    /\ LET found == {e \in DOMAIN lineage_edges :
                        lineage_edges[e].target_conversation = result.current}
       IN IF WalkRange(result.i, result.depth) /\ found # {}
          THEN \E e \in found :
                  result' = [result EXCEPT !.i = @ + 1,
                                !.edges = Append(@, lineage_edges[e]),
                                !.current = lineage_edges[e].source_conversation]
          ELSE result' = [result EXCEPT !.action = "returned"]
    /\ WalkFrame

\* one iteration of get_descendants (lines 163-171), or its return
get_descendants_iter ==
    /\ result.op = "get_descendants" /\ result.action = "walking"
    /\ LET found == {e \in DOMAIN lineage_edges :
                        lineage_edges[e].source_conversation = result.current}
       IN IF WalkRange(result.i, result.depth) /\ found # {}
          THEN \E e \in found :
                  result' = [result EXCEPT !.i = @ + 1,
                                !.edges = Append(@, lineage_edges[e]),
                                !.current = lineage_edges[e].target_conversation]
          ELSE result' = [result EXCEPT !.action = "returned"]
    /\ WalkFrame

InitWalk ==
    /\ now = 0
    /\ ncalls = 0
    /\ \E op \in {"get_ancestors", "get_descendants"}, depth \in Depths,
          conversation_id \in {"conv-a", "conv-b"} :
          result = [op |-> op, action |-> "walking",
                    conversation_id |-> conversation_id, depth |-> depth,
                    i |-> 0, current |-> conversation_id, edges |-> <<>>]
    /\ memory_events = {}
    /\ decision_registry = <<>>
    /\ display_id_counters = <<>>
    /\ display_id_index = <<>>
    /\ thread_registry = <<>>
    /\ conversation_registry = <<>>
    /\ registrants = <<>>
    /\ allocators = <<>>
    /\ \E choice \in PairChoices :
          lineage_edges =
              StoreOf(UNION {EdgeOfChoice(pair, choice[1][pair]) :
                                pair \in {"ab", "bc", "ca"}}
                      \cup (IF choice[2] = "self" THEN {<<"conv-a", "conv-a">>} ELSE {}))
    /\ replay = <<>>
    /\ entanglement_scans = <<>>
    /\ compression_registry = <<>>
    /\ blobs = <<>>
    /\ writers = <<>>

NextWalk ==
    \/ get_ancestors_iter
    \/ get_descendants_iter

SpecWalk == InitWalk /\ [][NextWalk]_vars /\ WF_vars(NextWalk)

\* the edges collected so far are at most depth, start at the conversation
\* asked for, and each continues from where the previous one led
WalkIsChain ==
    /\ Len(result.edges) <= result.depth
    /\ \A k \in 1..Len(result.edges) :
          LET from == IF k = 1 THEN result.conversation_id
                      ELSE IF result.op = "get_ancestors"
                           THEN result.edges[k - 1].source_conversation
                           ELSE result.edges[k - 1].target_conversation
          IN /\ result.edges[k] \in {lineage_edges[e] : e \in DOMAIN lineage_edges}
             /\ IF result.op = "get_ancestors"
                THEN result.edges[k].target_conversation = from
                ELSE result.edges[k].source_conversation = from

\* C26: get_ancestors and get_descendants terminate on every stored edge
\* set, cycles included, and return at most depth edges, each edge
\* continuing from the conversation the previous edge led to.
C26_WalkTerminatesAsChain ==
    /\ []WalkIsChain
    /\ <>(result.action = "returned")

\* a walk over a cycle returned after going round it more than once
C26_Witness ==
    /\ result.action = "returned"
    /\ result.depth = 5
    /\ Len(result.edges) = 5
    /\ result.edges[4] = result.edges[1]
    /\ result.edges[2] # result.edges[1]

(***************************************************************************)
(* conversation_registry.py: the uuid register_conversation returns.        *)
(***************************************************************************)
\* C27: register_conversation always returns the uuid stored for the given
\* source_id, also when a source_id already registered is registered again
\* with a different project_name or created_at.
C27_ReturnsStoredUuid ==
    \A w \in Workers :
        registrants[w].pc = "returned" =>
            /\ registrants[w].source_id \in DOMAIN conversation_registry
            /\ registrants[w].conv_uuid
                  = conversation_registry[registrants[w].source_id].uuid

(***************************************************************************)
(* decision_registry.py: concurrent upsert_decision calls, step by step.    *)
(* writers is the position of each call; replay is the list of the display  *)
(* ids allocate_display_id has handed out.  db.py creates a unique index on *)
(* decision_registry.uuid, so an insert_one of a stored uuid raises         *)
(* DuplicateKeyError; insert_one may also fail on a write error.            *)
(***************************************************************************)
IdleUpsert ==
    [pc |-> "idle", text |-> "", decision_uuid |-> None, display_id |-> None,
     action |-> ""]

UpsertRaceFrame ==
    UNCHANGED <<now, result, thread_registry, conversation_registry, registrants,
                allocators, lineage_edges, entanglement_scans,
                compression_registry, blobs>>

\* upsert_decision lines 70-91: derive the uuid, find_one, and for a stored
\* uuid the validation or update, which allocates nothing
upsert_find_one(w, text) ==
    LET decision_uuid == decision_id(_derive_project_uuid("Forge OS"), text, ConvV8, now)
    IN /\ writers[w].pc \in {"idle", "returned", "raised"}
       /\ ncalls < MaxCalls
       /\ ncalls' = ncalls + 1
       /\ IF decision_uuid \in DOMAIN decision_registry
          THEN /\ decision_registry' =
                      _validate_decision(decision_registry, decision_uuid, now)
               /\ memory_events' = emit_event(memory_events, "graph.decision.validated",
                                              decision_uuid, now)
               /\ writers' = [writers EXCEPT ![w] =
                      [pc |-> "returned", text |-> text, decision_uuid |-> decision_uuid,
                       display_id |-> None, action |-> "validated"]]
          ELSE /\ writers' = [writers EXCEPT ![w] =
                      [pc |-> "allocate", text |-> text, decision_uuid |-> decision_uuid,
                       display_id |-> None, action |-> ""]]
               /\ UNCHANGED <<decision_registry, memory_events>>
       /\ UNCHANGED <<display_id_counters, display_id_index, replay>>
       /\ UpsertRaceFrame

\* _insert_decision line 172: allocate_display_id
upsert_allocate(w) ==
    /\ writers[w].pc = "allocate"
    /\ display_id_counters' = allocate_counters(display_id_counters, "Forge OS", "decision")
    /\ writers' = [writers EXCEPT ![w].pc = "insert",
           ![w].display_id = allocate_display_id(display_id_counters, "Forge OS", "decision")]
    /\ replay' = Append(replay,
                        allocate_display_id(display_id_counters, "Forge OS", "decision"))
    /\ UNCHANGED <<ncalls, decision_registry, display_id_index, memory_events>>
    /\ UpsertRaceFrame

\* line 201: insert_one; it raises when the uuid is stored by now, or when
\* the write fails (write_fails)
upsert_insert_one(w, write_fails) ==
    /\ writers[w].pc = "insert"
    /\ IF write_fails \/ writers[w].decision_uuid \in DOMAIN decision_registry
       THEN /\ writers' = [writers EXCEPT ![w].pc = "raised",
                   ![w].action = IF write_fails THEN "WriteError" ELSE "DuplicateKeyError"]
            /\ UNCHANGED decision_registry
       ELSE /\ decision_registry' =
                   InsertOne(decision_registry, writers[w].decision_uuid,
                       DecisionDoc(writers[w].decision_uuid, "D001", writers[w].display_id,
                                   writers[w].text, TextHash(writers[w].text), "Forge OS",
                                   _derive_project_uuid("Forge OS"), ConvV8, NoTier,
                                   "active", now))
            /\ writers' = [writers EXCEPT ![w].pc = "register"]
    /\ UNCHANGED <<ncalls, display_id_counters, display_id_index, memory_events, replay>>
    /\ UpsertRaceFrame

\* lines 203-234: register_display_id, then the event and the return
upsert_register(w) ==
    /\ writers[w].pc = "register"
    /\ display_id_index' = register_display_id(display_id_index, writers[w].display_id,
                               writers[w].decision_uuid, "decision_registry",
                               "Forge OS", now)
    /\ memory_events' = emit_event(memory_events, "graph.decision.inserted",
                                   writers[w].decision_uuid, now)
    /\ writers' = [writers EXCEPT ![w].pc = "returned", ![w].action = "inserted"]
    /\ UNCHANGED <<ncalls, decision_registry, display_id_counters, replay>>
    /\ UpsertRaceFrame

InitUpsertRace ==
    /\ now = 0
    /\ ncalls = 0
    /\ result = NoResult
    /\ memory_events = {}
    /\ decision_registry = <<>>
    /\ display_id_counters = <<>>
    /\ display_id_index = <<>>
    /\ thread_registry = <<>>
    /\ conversation_registry = <<>>
    /\ registrants = <<>>
    /\ allocators = <<>>
    /\ lineage_edges = <<>>
    /\ replay = <<>>
    /\ entanglement_scans = <<>>
    /\ compression_registry = <<>>
    /\ blobs = <<>>
    /\ writers = [w \in Workers |-> IdleUpsert]

NextUpsertRace ==
    \/ \E w \in Workers, text \in Texts : upsert_find_one(w, text)
    \/ \E w \in Workers : upsert_allocate(w)
    \/ \E w \in Workers, write_fails \in BOOLEAN : upsert_insert_one(w, write_fails)
    \/ \E w \in Workers : upsert_register(w)

SpecUpsertRace == InitUpsertRace /\ [][NextUpsertRace]_vars

\* C28: once the upserts have ended, every display id allocated during an
\* upsert is recorded in the display-id index and attached to exactly one
\* stored entity, under any interleaving of concurrent upserts of the same
\* new entity and when the insert after the allocation fails.
C28_AllocatedIdsAttached ==
    (\A w \in Workers : writers[w].pc \in {"idle", "returned", "raised"}) =>
        \A k \in 1..Len(replay) :
            /\ replay[k] \in DOMAIN display_id_index
            /\ Cardinality({u \in DOMAIN decision_registry :
                               decision_registry[u].global_display_id = replay[k]}) = 1

(***************************************************************************)
(* gravity.py: per_lens, the dict _parallel_lens_recall builds.  It is      *)
(* keyed by role and filled in the order the lens recalls complete, so for  *)
(* lenses of one role the entry is that of whichever completed last.        *)
(***************************************************************************)
MaxLenses == 3

\* the resolved lens lists: any projects with any roles, in any order
ResolvedLensLists ==
    UNION {[1..n -> {Lens(p, r) : p \in Projects, r \in DOMAIN ROLE_TYPES}] :
              n \in 1..MaxLenses}

\* what the searches scoped to a project hold
ProjectHits(project_name) == {h \in SearchPool : h.project = project_name}

\* the per_lens dicts _parallel_lens_recall can return for the lenses
_parallel_lens_recall(lenses) ==
    {[role \in {lenses[i].role : i \in 1..Len(lenses)} |->
         LensEntry(lenses[last[role]], results[last[role]],
                   Cardinality(ProjectHits(lenses[last[role]].project_name)))] :
     <<last, results>> \in
        {<<last, results>> \in
            [{lenses[i].role : i \in 1..Len(lenses)} -> 1..Len(lenses)]
            \X [1..Len(lenses) ->
                   UNION {LensResults(ProjectHits(p), NoScan) : p \in Projects}] :
            /\ \A role \in DOMAIN last : lenses[last[role]].role = role
            /\ \A i \in 1..Len(lenses) :
                  results[i] \in LensResults(ProjectHits(lenses[i].project_name), NoScan)}}

\* steps 1 to 3 of orchestrate: the lenses resolved, their recalls run
lens_recall ==
    /\ result.action = "called"
    /\ \E per_lens \in _parallel_lens_recall(result.lenses) :
          result' = [op |-> "lens_recall", action |-> "returned",
                     lenses |-> result.lenses, per_lens |-> per_lens]
    /\ UNCHANGED ncalls
    /\ RecallFrame

InitLenses ==
    /\ now = 0
    /\ ncalls = 0
    /\ \E lenses \in ResolvedLensLists :
          result = [op |-> "lens_recall", action |-> "called", lenses |-> lenses]
    /\ memory_events = {}
    /\ decision_registry = <<>>
    /\ display_id_counters = <<>>
    /\ display_id_index = <<>>
    /\ thread_registry = <<>>
    /\ conversation_registry = <<>>
    /\ registrants = <<>>
    /\ allocators = <<>>
    /\ lineage_edges = <<>>
    /\ replay = <<>>
    /\ entanglement_scans = <<>>
    /\ compression_registry = <<>>
    /\ blobs = <<>>
    /\ writers = <<>>

NextLenses == lens_recall

SpecLenses == InitLenses /\ [][NextLenses]_vars

\* C29: per_lens holds exactly one entry for each resolved lens, also when
\* two lenses of different projects carry the same role, and each entry
\* holds the recall results of its own lens's project.
C29_OneEntryPerLens ==
    (result.op = "lens_recall" /\ result.action = "returned") =>
        \E entry_of \in [1..Len(result.lenses) -> DOMAIN result.per_lens] :
            /\ \A i, j \in 1..Len(result.lenses) :
                  (i # j /\ result.lenses[i] # result.lenses[j])
                      => entry_of[i] # entry_of[j]
            /\ \A i \in 1..Len(result.lenses) :
                  /\ result.per_lens[entry_of[i]].role = result.lenses[i].role
                  /\ result.per_lens[entry_of[i]].project = result.lenses[i].project_name
                  /\ result.per_lens[entry_of[i]].results \in
                        LensResults(ProjectHits(result.lenses[i].project_name), NoScan)

(***************************************************************************)
(* entanglement.py: scan() on stored decisions and threads.  `similar` is   *)
(* the vector index's answer: the pairs of documents it scores at or above  *)
(* the similarity threshold.  The filters of the finds and of the           *)
(* $vectorSearch stages are the code's.                                     *)
(***************************************************************************)
\* the documents the registries may hold, with the status of each
ScanDecisions ==
    [{"dec-aaaa-1", "u3"} -> {"absent", "active", "superseded"}]
ScanThreads ==
    [{"thr-bbbb-2", "u4"} -> {"absent", "open", "resolved"}]

ScanProjectOf(uuid) == IF uuid \in {"dec-aaaa-1", "u4"} THEN "Forge OS" ELSE "The Nexus"

ScanStore(statuses) ==
    [u \in {v \in DOMAIN statuses : statuses[v] # "absent"} |->
        [uuid |-> u, local_id |-> "", project |-> ScanProjectOf(u),
         status |-> statuses[u]]]

SimilarPairs ==
    SUBSET {{"dec-aaaa-1", "u3"}, {"dec-aaaa-1", "thr-bbbb-2"}, {"u4", "thr-bbbb-2"}}

\* $vectorSearch with filter {"project": {"$ne": source_project}}
_vector_search_cross_project(collection, similar, source_uuid, source_project) ==
    {m \in DOMAIN collection : /\ collection[m].project # source_project
                                /\ {source_uuid, m} \in similar}

\* $vectorSearch without a filter
_vector_search_global(collection, similar, source_uuid) ==
    {m \in DOMAIN collection : {source_uuid, m} \in similar}

\* the (source, target) pairs a finder may report: one per unordered pair,
\* from whichever source the loop reached first
FinderPairs(found) ==
    {chosen \in SUBSET found :
        /\ \A p \in found : \E q \in chosen : {q[1], q[2]} = {p[1], p[2]}
        /\ \A p, q \in chosen : {q[1], q[2]} = {p[1], p[2]} => p = q}

find_cross_project_decision_resonances(decisions, similar) ==
    FinderPairs({<<d, m>> \in (DOMAIN decisions) \X (DOMAIN decisions) :
                    /\ decisions[d].status = "active"
                    /\ m \in _vector_search_cross_project(decisions, similar, d,
                                                          decisions[d].project)})

find_decision_thread_resonances(decisions, threads, similar) ==
    FinderPairs({<<d, m>> \in (DOMAIN decisions) \X (DOMAIN threads) :
                    /\ decisions[d].status = "active"
                    /\ m \in _vector_search_global(threads, similar, d)
                    /\ decisions[d].project # threads[m].project})

find_cross_project_thread_resonances(threads, similar) ==
    FinderPairs({<<t, m>> \in (DOMAIN threads) \X (DOMAIN threads) :
                    /\ threads[t].status # "resolved"
                    /\ m \in _vector_search_cross_project(threads, similar, t,
                                                          threads[t].project)})

\* a finder's pairs as its list of resonances
RECURSIVE ResonancesOf(_)
ResonancesOf(pairs) ==
    IF pairs = {} THEN <<>>
    ELSE LET first == CHOOSE p \in pairs : \A q \in pairs :
                          \/ UuidIndex(p[1]) < UuidIndex(q[1])
                          \/ UuidIndex(p[1]) = UuidIndex(q[1])
                             /\ UuidIndex(p[2]) <= UuidIndex(q[2])
         IN <<Resonance(first[1], first[2], 80)>>
            \o ResonancesOf(pairs \ {first})

_find_loose_ends(all_items_by_uuid, clustered_uuids) ==
    LET sorted == SortedUuids(DOMAIN all_items_by_uuid \ clustered_uuids)
    IN [k \in 1..Len(sorted) |-> ItemInfo(all_items_by_uuid, sorted[k])]

\* scan(): the items index, the three finders, the clusters, the loose ends
scan_store ==
    /\ result.action = "called"
    /\ \E dd \in find_cross_project_decision_resonances(decision_registry, result.similar),
          dt \in find_decision_thread_resonances(decision_registry, thread_registry,
                                                 result.similar),
          tt \in find_cross_project_thread_resonances(thread_registry, result.similar) :
          \E clusters \in
                {_cluster_resonances(ResonancesOf(dd) \o ResonancesOf(dt) \o ResonancesOf(tt),
                     _build_items_index(decision_registry, thread_registry))} :
             result' = [op |-> "scan", action |-> "returned",
                        resonances_found |-> Cardinality(dd) + Cardinality(dt)
                                             + Cardinality(tt),
                        clusters |-> clusters,
                        loose_ends |-> _find_loose_ends(
                            _build_items_index(decision_registry, thread_registry),
                            UNION {{clusters[c].items[k].uuid :
                                       k \in 1..Len(clusters[c].items)} :
                                   c \in 1..Len(clusters)})]
    /\ UNCHANGED <<ncalls, entanglement_scans>>
    /\ ScanFrame

InitScanStore ==
    /\ now = 0
    /\ ncalls = 0
    /\ \E similar \in SimilarPairs :
          result = [op |-> "scan", action |-> "called", similar |-> similar]
    /\ memory_events = {}
    /\ \E statuses \in ScanDecisions : decision_registry = ScanStore(statuses)
    /\ display_id_counters = <<>>
    /\ display_id_index = <<>>
    /\ \E statuses \in ScanThreads : thread_registry = ScanStore(statuses)
    /\ conversation_registry = <<>>
    /\ registrants = <<>>
    /\ allocators = <<>>
    /\ lineage_edges = <<>>
    /\ replay = <<>>
    /\ entanglement_scans = <<>>
    /\ compression_registry = <<>>
    /\ blobs = <<>>
    /\ writers = <<>>

NextScanStore == scan_store

SpecScanStore == InitScanStore /\ [][NextScanStore]_vars

\* C30: in every scan result every cluster item is a member of the items
\* index (an active decision or a thread not resolved), so the clustered
\* items and the loose ends are disjoint and together are exactly the items
\* index.
C30_ClustersAndLooseEndsPartitionIndex ==
    (result.op = "scan" /\ result.action = "returned") =>
        LET index == DOMAIN _build_items_index(decision_registry, thread_registry)
            clustered == UNION {{result.clusters[c].items[k].uuid :
                                    k \in 1..Len(result.clusters[c].items)} :
                                c \in 1..Len(result.clusters)}
            loose == {result.loose_ends[k].uuid : k \in 1..Len(result.loose_ends)}
        IN /\ clustered \subseteq index
           /\ clustered \cap loose = {}
           /\ clustered \cup loose = index

====
